---- MODULE Spec2Model ----
(***************************************************************************)
(* A model of the report-generation workflow of MastraOpenDeepResearch:    *)
(* the MastraGraph engine (workflows/flow.ts), routeTasks, the stage       *)
(* functions of agents/graphAgent.ts and the generateReport entry point.   *)
(*                                                                         *)
(* JavaScript objects are shared by reference, so the sections of a plan   *)
(* live in a heap (a sequence of section objects) and the state holds      *)
(* their indices: state.section, the entries of state.sections and of      *)
(* state.completed_sections may name the same object, and a stage that     *)
(* assigns section.content or pushes to section.sources changes it for     *)
(* all of them.  A state is a function from the keys it has to their       *)
(* values, so that the spread {...state, ...update} is Merge.              *)
(***************************************************************************)
EXTENDS Integers, Sequences, FiniteSets, TLC

VARIABLES
    wf,                \* the MastraGraph instance: nodes, entryPoint, edges, conditionalEdges
    runStatus,         \* "idle" | "running" | "returned" | "thrown" (of MastraGraph.run)
    currentNodeName,   \* run's local currentNodeName
    currentState,      \* run's local currentState
    maxSteps,          \* run's local maxSteps
    heap,              \* the section objects, shared by reference
    max_search_depth,  \* configuration.max_search_depth
    awaiting,          \* "grader" while writeSection, with the writer's text assigned,
                       \*   awaits the grader; "" otherwise
    lastResult,        \* the value the last executed stage returned
    trace,             \* history: the stages executed so far, with the section they ran on
    \* runSupervisorWorkflow (agents/supervisorAgent.ts)
    supervisorPc,      \* where the workflow is: "idle" | "start" | "research" | "reconcile" |
                       \*   "write" | "compile" | "returned" | "thrown"
    reportSections,    \* its local reportSections
    completedSections, \* its local completedSections
    allResearchedContent,      \* its local allResearchedContent
    sectionsWrittenInThisStep, \* its local sectionsWrittenInThisStep
    loopIndex,         \* the position of the for loop it is in (sections done so far)
    supervisorResult,  \* the text it returned
    toolLog,           \* history: the tool calls made, with the section and the outcome
    \* tavilySearchAsync and the search cache (tools/utils.ts)
    searchCache,       \* the module's searchCache: cache key -> response
    gatewayPc,         \* "idle" | "await batch" | "delay" | "returned"
    call,              \* the locals of the running call of tavilySearchAsync
    strayRequests,     \* requests of a batch that already failed, still in flight:
                       \*   each with the call that sent it and its place in it
    orderedResults,    \* what the last call returned
    gatewayLog,        \* history: the calls made, the cache keys earlier calls
                       \*   contained, those the provider has answered, and of the
                       \*   running call the provider requests, the queries whose
                       \*   request was answered while awaited, those whose request
                       \*   failed (with the message) and the delays taken
    \* selectAndExecuteSearch, tavilySearch, duckduckgoSearch (tools/utils.ts)
    searchPc,          \* "idle" | "tavily" | "validate" | "ddg request" | "scrape" |
                       \*   "returned" | "thrown"
    search,            \* the locals of the running call of selectAndExecuteSearch
                       \*   and of the search function it called
    searchOutput,      \* what the last call returned, or the error it threw
    searchLog          \* history: the calls made, and of the running call the
                       \*   requests to each provider and the probes of urls

runVars == <<wf, runStatus, currentNodeName, currentState, maxSteps, heap,
             max_search_depth, awaiting, lastResult, trace>>

supervisorVars == <<supervisorPc, reportSections, completedSections, allResearchedContent,
                    sectionsWrittenInThisStep, loopIndex, supervisorResult, toolLog>>

gatewayVars == <<searchCache, gatewayPc, call, strayRequests, orderedResults, gatewayLog>>

searchVars == <<searchPc, search, searchOutput, searchLog>>

vars == <<runVars, supervisorVars, gatewayVars, searchVars>>

----------------------------------------------------------------------------
(* Bounds of the model *)

\* longest plan generate-report-plan may return
MaxSections == 3
\* largest configured max_search_depth
MaxDepth == 2

(* Program constants *)

\* let maxSteps = 20
MaxStepsInit == 20

END == "END"
\* entryPoint: string | null = null
Null == "<null>"
\* the value of a string-typed key that is present but undefined
Undefined == "<undefined>"
\* the value of a list-typed key that is present but undefined
UndefinedList == <<"<undefined>">>

Min(S) == CHOOSE x \in S : \A y \in S : x <= y

Has(state, k) == k \in DOMAIN state

\* state[k], or d when state has no key k (JavaScript reads undefined)
Field(state, k, d) == IF k \in DOMAIN state THEN state[k] ELSE d

\* a merge that concatenates completed_sections instead of replacing it
MergeAppending(state, update) ==
    [k \in (DOMAIN state) \cup (DOMAIN update) |->
        IF k \in DOMAIN update
        THEN IF k = "completed_sections" /\ k \in DOMAIN state
             THEN state[k] \o update[k]
             ELSE update[k]
        ELSE state[k]]

\* {...state, ...update}
Merge(state, update) ==
    [k \in (DOMAIN state) \cup (DOMAIN update) |->
        IF k \in DOMAIN update THEN update[k] ELSE state[k]]

NoUpdate == [k \in {} |-> 0]

----------------------------------------------------------------------------
(* MastraGraph: construction *)

newGraph ==
    [nodes |-> [k \in {} |-> ""],
     entryPoint |-> Null,
     edges |-> [k \in {} |-> <<>>],
     conditionalEdges |-> [k \in {} |-> <<>>]]

\* this.nodes.set(name, func): func is named by the function it is
addNode(g, name, func) ==
    [g EXCEPT !.nodes = [k \in (DOMAIN @) \cup {name} |->
                            IF k = name THEN func ELSE @[k]]]

setEntryPoint(g, name) == [g EXCEPT !.entryPoint = name]

addEdge(g, from, to) ==
    [g EXCEPT !.edges = [k \in (DOMAIN @) \cup {from} |->
                            IF k = from
                            THEN (IF from \in DOMAIN @ THEN @[from] ELSE <<>>) \o <<to>>
                            ELSE @[k]]]

addConditionalEdge(g, from, to, condition) ==
    [g EXCEPT !.conditionalEdges =
        [k \in (DOMAIN @) \cup {from} |->
            IF k = from
            THEN (IF from \in DOMAIN @ THEN @[from] ELSE <<>>)
                    \o <<[condition |-> condition, to |-> to]>>
            ELSE @[k]]]

\* The conditions the graphs register are closures; a condition is named by
\* what it tests: the command's goto, or a key of the (merged) state.
GotoIs(target) == [kind |-> "gotoIs", arg |-> target]
FlagIs(v) == [kind |-> "flagIs", arg |-> v]

EvalCondition(c, state, command) ==
    IF c.kind = "gotoIs"
    THEN command.goto = c.arg
    ELSE Has(state, "flag") /\ state["flag"] = c.arg

----------------------------------------------------------------------------
(* MastraGraph.run: what one stage's result does to the run *)

\* A stage result: a Command (an object with a string goto), a partial state
\* (any other object), or something that is not an object.
Command(goto, update) == [kind |-> "command", goto |-> goto, update |-> update]
Partial(update) == [kind |-> "partial", update |-> update]
Invalid == [kind |-> "invalid"]

Outcome(status, node, state) == [status |-> status, node |-> node, state |-> state]

\* index of the first conditional edge, in registration order, whose
\* condition holds on (state, command); 0 when none does
FirstMatchLast(links, state, command) ==
    LET hits == {i \in 1..Len(links) : EvalCondition(links[i].condition, state, command)}
    IN  IF hits = {} THEN 0 ELSE CHOOSE i \in hits : \A j \in hits : j <= i

FirstMatch(links, state, command) ==
    LET hits == {i \in 1..Len(links) : EvalCondition(links[i].condition, state, command)}
    IN  IF hits = {} THEN 0 ELSE Min(hits)

\* lines 126-164: the result is a Command
RunCommand(g, node, state, command) ==
    LET merged == Merge(state, command.update)
        links == IF node \in DOMAIN g.conditionalEdges
                 THEN g.conditionalEdges[node] ELSE <<>>
        m == FirstMatch(links, merged, command)
    IN  IF m # 0
        THEN Outcome("continue", links[m].to, merged)
        ELSE IF command.goto = END
        THEN IF node = "write-section"
             THEN Outcome("continue", "gather-completed-sections", merged)
             ELSE Outcome("returned", node, merged)
        ELSE IF command.goto \in DOMAIN g.nodes
        THEN Outcome("continue", command.goto, merged)
        ELSE Outcome("thrown", node, merged)

\* a run that returns at every stage without a direct edge
RunPartialAnyDeadEnd(g, node, state, update) ==
    LET merged == Merge(state, update)
        directEdges == IF node \in DOMAIN g.edges THEN g.edges[node] ELSE <<>>
    IN  IF Len(directEdges) > 0
        THEN Outcome("continue", directEdges[1], merged)
        ELSE Outcome("returned", node, merged)

\* lines 166-182: the result is a partial state
RunPartial(g, node, state, update) ==
    LET merged == Merge(state, update)
        directEdges == IF node \in DOMAIN g.edges THEN g.edges[node] ELSE <<>>
    IN  IF Len(directEdges) > 0
        THEN Outcome("continue", directEdges[1], merged)
        ELSE IF node = "compile-final-report" /\ Has(merged, "final_report")
        THEN Outcome("returned", node, merged)
        ELSE Outcome("thrown", node, merged)

\* lines 124-185
RunResult(g, node, state, result) ==
    IF result.kind = "command" THEN RunCommand(g, node, state, result)
    ELSE IF result.kind = "partial" THEN RunPartial(g, node, state, result.update)
    ELSE Outcome("thrown", node, state)

----------------------------------------------------------------------------
(* The three parts of the program at rest: each specification runs one and *)
(* leaves the others so                                                    *)

\* runSupervisorWorkflow has not been called
SupervisorIdle ==
    /\ supervisorPc = "idle"
    /\ reportSections = <<>>
    /\ completedSections = <<>>
    /\ allResearchedContent = ""
    /\ sectionsWrittenInThisStep = <<>>
    /\ loopIndex = 0
    /\ supervisorResult = Undefined
    /\ toolLog = <<>>

NoCall == [k \in {} |-> 0]

\* the module is loaded and tavilySearchAsync has not been called
GatewayIdle ==
    /\ searchCache = [k \in {} |-> 0]
    /\ gatewayPc = "idle"
    /\ call = NoCall
    /\ strayRequests = {}
    /\ orderedResults = <<>>
    /\ gatewayLog = [calls |-> 0, contained |-> {}, answered |-> {},
                     answeredAtStart |-> {}, containedAtStart |-> {}, cacheAtStart |-> <<>>,
                     requested |-> <<>>,
                     fulfilled |-> {}, rejected |-> {}, delays |-> 0]

\* selectAndExecuteSearch has not been called
SearchIdle ==
    /\ searchPc = "idle"
    /\ search = NoCall
    /\ searchOutput = Undefined
    /\ searchLog = [calls |-> 0, ddgRequests |-> <<>>, probes |-> <<>>,
                    gatewayCallsAtStart |-> 0]

\* the run of the graph has not been started
RunIdle ==
    /\ wf = newGraph
    /\ runStatus = "idle"
    /\ currentNodeName = Null
    /\ currentState = NoUpdate
    /\ maxSteps = MaxStepsInit
    /\ heap = <<>>
    /\ max_search_depth = 0
    /\ awaiting = ""
    /\ lastResult = Invalid
    /\ trace = <<>>

----------------------------------------------------------------------------
(* Sections, sources and the text helpers of tools/utils.ts *)

Section(name, description, research, content, sources) ==
    [name |-> name, description |-> description, research |-> research,
     content |-> content, sources |-> sources]

Source(url, title) == [url |-> url, title |-> title]

\* the section objects a list of references names
Deref(h, refs) == [i \in 1..Len(refs) |-> h[refs[i]]]

\* '='.repeat(60)
Rule == "============================================================"

BoolStr(b) == IF b THEN "true" ELSE "false"

\* a JavaScript string that counts as true
Truthy(text) == text # "" /\ text # Undefined

\* a block that carries the index of forEach as its number
FormatBlockZeroBased(section, idx) ==
    "\n" \o Rule \o "\nSection " \o ToString(idx) \o ": " \o section.name
         \o "\n" \o Rule \o "\nDescription:\n" \o section.description
         \o "\nRequires Research:\n" \o BoolStr(section.research)
         \o "\n\nContent:\n"
         \o (IF Truthy(section.content) THEN section.content ELSE "[Not yet written]")
         \o "\n\n"

\* one block of formatSections; idx counts from 0 as in forEach
FormatBlock(section, idx) ==
    "\n" \o Rule \o "\nSection " \o ToString(idx + 1) \o ": " \o section.name
         \o "\n" \o Rule \o "\nDescription:\n" \o section.description
         \o "\nRequires Research:\n" \o BoolStr(section.research)
         \o "\n\nContent:\n"
         \o (IF Truthy(section.content) THEN section.content ELSE "[Not yet written]")
         \o "\n\n"

RECURSIVE FormatFrom(_, _)
FormatFrom(sections, idx) ==
    IF idx >= Len(sections) THEN ""
    ELSE FormatBlock(sections[idx + 1], idx) \o FormatFrom(sections, idx + 1)

formatSections(sections) == FormatFrom(sections, 0)

\* parts.join(sep)
RECURSIVE Join(_, _)
Join(parts, sep) ==
    IF Len(parts) = 0 THEN ""
    ELSE IF Len(parts) = 1 THEN parts[1]
    ELSE parts[1] \o sep \o Join(Tail(parts), sep)

\* push every source, seen or not
AddUniqueUnchecked(existing, incoming) == existing \o incoming

\* push each source whose url was not in the list before the call
AddUniqueAgainstOld(existing, incoming) ==
    existing \o SelectSeq(incoming,
                          LAMBDA s : s.url \notin {existing[i].url : i \in 1..Len(existing)})

\* push each source whose url is not yet in the list, in order
RECURSIVE AddUnique(_, _)
AddUnique(existing, incoming) ==
    IF Len(incoming) = 0 THEN existing
    ELSE LET s == incoming[1]
             seen == {existing[i].url : i \in 1..Len(existing)}
         IN  AddUnique(IF s.url \in seen THEN existing ELSE Append(existing, s),
                       Tail(incoming))

RECURSIVE Concat(_)
Concat(lists) ==
    IF Len(lists) = 0 THEN <<>> ELSE lists[1] \o Concat(Tail(lists))

----------------------------------------------------------------------------
(* The stage functions.  A stage that assigns to a section in place yields *)
(* the value it returns (result) and the heap after it (heap); the others  *)
(* yield the value they return.                                            *)

Ret(result, h) == [result |-> result, heap |-> h]

\* generateReportPlan: the planner's sections become fresh objects
generateReportPlan(state, h, plan) ==
    LET refs == [i \in 1..Len(plan) |-> Len(h) + i]
    IN  Ret(Partial([sections |-> refs]), h \o plan)

\* humanFeedback: approved = true
humanFeedback(state) ==
    Command("route-tasks",
            [topic |-> state["topic"],
             sections |-> state["sections"],
             feedback_on_report_plan |-> <<>>,
             completed_sections |-> Field(state, "completed_sections", <<>>),
             report_sections_from_research |->
                 Field(state, "report_sections_from_research", Undefined)])

\* the first section, in the order of sections, whose name no completed
\* section has; 0 when there is none
FirstUncompletedLast(state, h) ==
    LET secs == state["sections"]
        done == Field(state, "completed_sections", <<>>)
        doneNames == {h[done[j]].name : j \in 1..Len(done)}
        open == {i \in 1..Len(secs) : h[secs[i]].name \notin doneNames}
    IN  IF open = {} THEN 0 ELSE CHOOSE i \in open : \A j \in open : j <= i

FirstUncompleted(state, h) ==
    LET secs == state["sections"]
        done == Field(state, "completed_sections", <<>>)
        doneNames == {h[done[j]].name : j \in 1..Len(done)}
        open == {i \in 1..Len(secs) : h[secs[i]].name \notin doneNames}
    IN  IF open = {} THEN 0 ELSE Min(open)

\* lines 204-216: nothing is left to do
AllCompletedByName(state, h) ==
    \/ ~Has(state, "sections")
    \/ \A i \in 1..Len(state["sections"]) :
          \E j \in 1..Len(Field(state, "completed_sections", <<>>)) :
             h[state["completed_sections"][j]].name = h[state["sections"][i]].name

AllCompleted(state, h) ==
    LET completedSectionsCount ==
            IF Has(state, "completed_sections") THEN Len(state["completed_sections"]) ELSE 0
    IN  \/ ~Has(state, "sections")
        \/ Len(state["sections"]) = 0
        \/ completedSectionsCount = Len(state["sections"])

\* lines 237-264: the directive for the selected section
RouteForSwapped(state, h, currentSection) ==
    LET common == [topic |-> state["topic"],
                   section |-> currentSection,
                   sections |-> state["sections"],
                   completed_sections |-> Field(state, "completed_sections", <<>>),
                   feedback_on_report_plan |->
                       Field(state, "feedback_on_report_plan", UndefinedList),
                   report_sections_from_research |-> ""]
    IN  IF ~h[currentSection].research
        THEN Command("generate-queries", Merge(common, [search_iterations |-> 0]))
        ELSE Command("write-final-sections", common)

RouteFor(state, h, currentSection) ==
    IF h[currentSection].research
    THEN Command("generate-queries",
            [topic |-> state["topic"],
             section |-> currentSection,
             search_iterations |-> 0,
             sections |-> state["sections"],
             completed_sections |-> Field(state, "completed_sections", <<>>),
             feedback_on_report_plan |->
                 Field(state, "feedback_on_report_plan", UndefinedList),
             report_sections_from_research |->
                 Field(state, "report_sections_from_research", Undefined)])
    ELSE Command("write-final-sections",
            [topic |-> state["topic"],
             section |-> currentSection,
             report_sections_from_research |->
                 LET r == Field(state, "report_sections_from_research", Undefined)
                 IN  IF r = Undefined THEN "" ELSE r,
             sections |-> state["sections"],
             completed_sections |-> Field(state, "completed_sections", <<>>),
             feedback_on_report_plan |->
                 Field(state, "feedback_on_report_plan", UndefinedList)])

routeTasks(state, h) ==
    IF AllCompleted(state, h)
    THEN Command("compile-final-report", NoUpdate)
    ELSE LET first == FirstUncompleted(state, h)
         IN  IF first = 0
             THEN Command("compile-final-report", NoUpdate)
             ELSE RouteFor(state, h, state["sections"][first])

generateQueries(state, queries) == Partial([search_queries |-> queries])

\* a searchWeb that does not count the pass
searchWebUncounted(state, h, searchResult) ==
    LET ref == state["section"]
        h2 == IF Len(searchResult.sources) > 0
              THEN [h EXCEPT ![ref].sources = AddUnique(@, searchResult.sources)]
              ELSE h
    IN  Ret(Partial([source_str |-> searchResult.formattedOutput,
                     search_iterations |-> state["search_iterations"]]),
            h2)

\* searchWeb: pushes the new sources to state.section.sources in place
searchWeb(state, h, searchResult) ==
    LET ref == state["section"]
        h2 == IF Len(searchResult.sources) > 0
              THEN [h EXCEPT ![ref].sources = AddUnique(@, searchResult.sources)]
              ELSE h
    IN  Ret(Partial([source_str |-> searchResult.formattedOutput,
                     search_iterations |-> state["search_iterations"] + 1]),
            h2)

\* a writeSection that ends the section only once the depth is exceeded
writeSectionDepthExceeded(state, h, text, feedback, depth) ==
    LET ref == state["section"]
        h2 == [h EXCEPT ![ref].content = text]
    IN  IF feedback.grade = "pass" \/ state["search_iterations"] > depth
        THEN Ret(Command(END, [completed_sections |-> <<ref>>]), h2)
        ELSE Ret(Command("search-web",
                    [search_queries |-> feedback.follow_up_queries, section |-> ref]),
                 h2)

\* a writeSection that sends a failed section back to query generation
writeSectionRegenerates(state, h, text, feedback, depth) ==
    LET ref == state["section"]
        h2 == [h EXCEPT ![ref].content = text]
    IN  IF feedback.grade = "pass" \/ state["search_iterations"] >= depth
        THEN Ret(Command(END, [completed_sections |-> <<ref>>]), h2)
        ELSE Ret(Command("generate-queries", [section |-> ref]), h2)

\* writeSection: assigns section.content, then grades
writeSection(state, h, text, feedback, depth) ==
    LET ref == state["section"]
        h2 == [h EXCEPT ![ref].content = text]
    IN  IF feedback.grade = "pass" \/ state["search_iterations"] >= depth
        THEN Ret(Command(END, [completed_sections |-> <<ref>>]), h2)
        ELSE Ret(Command("search-web",
                    [search_queries |-> feedback.follow_up_queries, section |-> ref]),
                 h2)

writeFinalSections(state, h, text) ==
    LET ref == state["section"]
    IN  Ret(Partial([completed_sections |-> <<ref>>]),
            [h EXCEPT ![ref].content = text])

\* a gatherCompletedSections that leaves out the section completed last
gatherCompletedSectionsButLast(state, h) ==
    Partial([report_sections_from_research |->
                formatSections(Deref(h, SubSeq(state["completed_sections"], 1,
                                               Len(state["completed_sections"]) - 1)))])

gatherCompletedSections(state, h) ==
    Partial([report_sections_from_research |->
                formatSections(Deref(h, state["completed_sections"]))])

\* stands for the heading "\n\n## <References, in Japanese>\n\n"
BibliographyHeading == "\n\n## References\n\n"

\* completedSections is an object literal: a name it has no entry for is
\* looked up in Object.prototype, whose function-valued properties are these
ObjectPrototypeFunctions ==
    {"constructor", "toString", "toLocaleString", "valueOf", "hasOwnProperty",
     "isPrototypeOf", "propertyIsEnumerable", "__defineGetter__",
     "__defineSetter__", "__lookupGetter__", "__lookupSetter__"}

\* what join makes of such a function
NativeText(name) ==
    "function " \o (IF name = "constructor" THEN "Object" ELSE name)
                \o "() { [native code] }"

\* completedSections[name]: the content of the last completed section of that
\* name, else the inherited property, as text; "" when it is falsy.  An
\* assignment of a string to "__proto__" stores nothing, and reading it
\* yields Object.prototype.
CompletedLookup(state, h, name) ==
    LET done == state["completed_sections"]
        hits == {j \in 1..Len(done) : h[done[j]].name = name}
        last == CHOOSE j \in hits : \A k \in hits : k <= j
    IN  IF name = "__proto__" THEN "[object Object]"
        ELSE IF hits # {} THEN h[done[last]].content
        ELSE IF name \in ObjectPrototypeFunctions THEN NativeText(name)
        ELSE ""

\* a merge that adds the completed content to the content the section has
CompiledContentAppending(state, h, ref) ==
    h[ref].content \o CompletedLookup(state, h, h[ref].name)

\* completedSections[section.name] || section.content
CompiledContent(state, h, ref) ==
    LET found == CompletedLookup(state, h, h[ref].name)
    IN  IF found # "" THEN found ELSE h[ref].content

\* allSources: every section's sources, a url once, first seen first
AllSources(state, h) ==
    AddUnique(<<>>, Concat([i \in 1..Len(state["sections"]) |->
                               h[state["sections"][i]].sources]))

RECURSIVE BibliographyLines(_, _)
BibliographyLines(sources, index) ==
    IF index >= Len(sources) THEN ""
    ELSE ToString(index + 1) \o ". [" \o sources[index + 1].title \o "]("
            \o sources[index + 1].url \o ")\n"
            \o BibliographyLines(sources, index + 1)

\* a compiler that writes the references heading whether or not a source exists
compileFinalReportAlwaysHeading(state, h) ==
    LET secs == state["sections"]
        allSections == Join([i \in 1..Len(secs) |-> CompiledContent(state, h, secs[i])],
                            "\n\n")
        allSources == AllSources(state, h)
    IN  Ret(Partial([final_report |->
                        allSections \o BibliographyHeading
                            \o BibliographyLines(allSources, 0)]),
            h)

compileFinalReport(state, h) ==
    LET secs == state["sections"]
        refs == {secs[i] : i \in 1..Len(secs)}
        h2 == [r \in DOMAIN h |->
                 IF r \in refs
                 THEN [h[r] EXCEPT !.content = CompiledContent(state, h, r)]
                 ELSE h[r]]
        allSections == Join([i \in 1..Len(secs) |-> h2[secs[i]].content], "\n\n")
        allSources == AllSources(state, h2)
    IN  Ret(Partial([final_report |->
                        IF Len(allSources) > 0
                        THEN allSections \o BibliographyHeading
                                \o BibliographyLines(allSources, 0)
                        ELSE allSections]),
            h2)

----------------------------------------------------------------------------
(* The report graph of workflows/flow.ts *)

\* the report graph with gather-completed-sections wired to the compile stage
graphGatherToCompile ==
    LET n1 == addNode(newGraph, "generate-report-plan", "generateReportPlan")
        n2 == addNode(n1, "human-feedback", "humanFeedback")
        n3 == addNode(n2, "route-tasks", "routeTasks")
        n4 == addNode(n3, "generate-queries", "generateQueries")
        n5 == addNode(n4, "search-web", "searchWeb")
        n6 == addNode(n5, "write-section", "writeSection")
        n7 == addNode(n6, "write-final-sections", "writeFinalSections")
        n8 == addNode(n7, "gather-completed-sections", "gatherCompletedSections")
        n9 == addNode(n8, "compile-final-report", "compileFinalReport")
        e0 == setEntryPoint(n9, "generate-report-plan")
        e1 == addEdge(e0, "generate-report-plan", "human-feedback")
        c1 == addConditionalEdge(e1, "human-feedback", "generate-report-plan",
                                 GotoIs("generate-report-plan"))
        c2 == addConditionalEdge(c1, "human-feedback", "route-tasks", GotoIs("route-tasks"))
        c3 == addConditionalEdge(c2, "route-tasks", "generate-queries",
                                 GotoIs("generate-queries"))
        c4 == addConditionalEdge(c3, "route-tasks", "write-final-sections",
                                 GotoIs("write-final-sections"))
        c5 == addConditionalEdge(c4, "route-tasks", "compile-final-report",
                                 GotoIs("compile-final-report"))
        e2 == addEdge(c5, "generate-queries", "search-web")
        e3 == addEdge(e2, "search-web", "write-section")
        c6 == addConditionalEdge(e3, "write-section", "search-web", GotoIs("search-web"))
        c7 == addConditionalEdge(c6, "write-section", "gather-completed-sections",
                                 GotoIs(END))
        e4 == addEdge(c7, "write-final-sections", "gather-completed-sections")
        e5 == addEdge(e4, "gather-completed-sections", "compile-final-report")
    IN  e5

graph ==
    LET n1 == addNode(newGraph, "generate-report-plan", "generateReportPlan")
        n2 == addNode(n1, "human-feedback", "humanFeedback")
        n3 == addNode(n2, "route-tasks", "routeTasks")
        n4 == addNode(n3, "generate-queries", "generateQueries")
        n5 == addNode(n4, "search-web", "searchWeb")
        n6 == addNode(n5, "write-section", "writeSection")
        n7 == addNode(n6, "write-final-sections", "writeFinalSections")
        n8 == addNode(n7, "gather-completed-sections", "gatherCompletedSections")
        n9 == addNode(n8, "compile-final-report", "compileFinalReport")
        e0 == setEntryPoint(n9, "generate-report-plan")
        e1 == addEdge(e0, "generate-report-plan", "human-feedback")
        c1 == addConditionalEdge(e1, "human-feedback", "generate-report-plan",
                                 GotoIs("generate-report-plan"))
        c2 == addConditionalEdge(c1, "human-feedback", "route-tasks", GotoIs("route-tasks"))
        c3 == addConditionalEdge(c2, "route-tasks", "generate-queries",
                                 GotoIs("generate-queries"))
        c4 == addConditionalEdge(c3, "route-tasks", "write-final-sections",
                                 GotoIs("write-final-sections"))
        c5 == addConditionalEdge(c4, "route-tasks", "compile-final-report",
                                 GotoIs("compile-final-report"))
        e2 == addEdge(c5, "generate-queries", "search-web")
        e3 == addEdge(e2, "search-web", "write-section")
        c6 == addConditionalEdge(e3, "write-section", "search-web", GotoIs("search-web"))
        c7 == addConditionalEdge(c6, "write-section", "gather-completed-sections",
                                 GotoIs(END))
        e4 == addEdge(c7, "write-final-sections", "gather-completed-sections")
        e5 == addEdge(e4, "gather-completed-sections", "route-tasks")
    IN  e5

----------------------------------------------------------------------------
(* What the model and the search provider may answer *)

SectionName(i) == "section-" \o ToString(i)

\* the plans the planner may return: up to MaxSections sections with
\* pairwise distinct names, each needing research or not
Plans ==
    UNION {{[i \in 1..n |-> Section(SectionName(i), "about " \o SectionName(i),
                                    flags[i], "", <<>>)] : flags \in [1..n -> BOOLEAN]}
           : n \in 0..MaxSections}

Texts == {"", "text-a", "text-b"}

Grades == {"pass", "fail"}

GeneratedQueries == {<<[search_query |-> "q1"]>>}

FollowUpQueries == {<<[search_query |-> "q2"]>>}

SearchResults ==
    {[formattedOutput |-> "No valid search results", sources |-> <<>>],
     [formattedOutput |-> "results u1 u2",
      sources |-> <<Source("http://u1", "t1"), Source("http://u2", "t2")>>]}

Depths == 0..MaxDepth

----------------------------------------------------------------------------
(* generateReport: reportGenerationWorkflow.run(initialState) *)

initialState ==
    [topic |-> "X", sections |-> <<>>, completed_sections |-> <<>>,
     feedback_on_report_plan |-> <<>>]

\* what generateReport makes of the end of run: the report when run returned a
\* state whose final_report is truthy, an error otherwise
Report(text) == [kind |-> "report", text |-> text]
Failure == [kind |-> "error"]

\* a generateReport that returns final_report without testing it
generateReportUnchecked(status, finalState) ==
    IF status = "returned"
    THEN Report(Field(finalState, "final_report", Undefined))
    ELSE Failure

generateReport(status, finalState) ==
    IF status = "returned"
          /\ Has(finalState, "final_report")
          /\ finalState["final_report"] # ""
    THEN Report(finalState["final_report"])
    ELSE Failure

Init ==
    /\ wf = graph
    /\ runStatus = "idle"
    /\ currentNodeName = Null
    /\ currentState = initialState
    /\ maxSteps = MaxStepsInit
    /\ heap = <<>>
    /\ max_search_depth \in Depths
    /\ awaiting = ""
    /\ lastResult = Invalid
    /\ trace = <<>>
    /\ SupervisorIdle
    /\ GatewayIdle
    /\ SearchIdle

\* lines 110-115
RunStart ==
    /\ runStatus = "idle"
    /\ IF wf.entryPoint = Null
       THEN runStatus' = "thrown" /\ UNCHANGED currentNodeName
       ELSE runStatus' = "running" /\ currentNodeName' = wf.entryPoint
    /\ UNCHANGED <<wf, currentState, maxSteps, heap, max_search_depth, awaiting, lastResult, trace>>
    /\ UNCHANGED <<supervisorVars, gatewayVars, searchVars>>

\* the loop is at a registered node whose function is func
AtStage(func) ==
    /\ runStatus = "running"
    /\ maxSteps > 0
    /\ currentNodeName \in DOMAIN wf.nodes
    /\ wf.nodes[currentNodeName] = func

SectionOf(state, h) ==
    IF Has(state, "section") THEN h[state["section"]].name ELSE ""

\* a history entry: the stage run, the section it ran on, whether its await
\* rejected, the grade the grader gave (write-section only) and the goto of
\* the Command it returned
Entry(threw, grade, result) ==
    [node |-> currentNodeName, section |-> SectionOf(currentState, heap),
     threw |-> threw, grade |-> grade,
     goto |-> IF result.kind = "command" THEN result.goto ELSE ""]

\* one turn of the loop: the stage returned result and left the heap as h2
Step(result, h2, grade) ==
    LET o == RunResult(wf, currentNodeName, currentState, result)
    IN  /\ maxSteps' = maxSteps - 1
        /\ runStatus' = IF o.status = "continue" THEN "running" ELSE o.status
        /\ currentNodeName' = o.node
        /\ currentState' = o.state
        /\ heap' = h2
        /\ lastResult' = result
        /\ trace' = Append(trace, Entry(FALSE, grade, result))
        /\ awaiting' = ""
        /\ UNCHANGED <<wf, max_search_depth>>
        /\ UNCHANGED <<supervisorVars, gatewayVars, searchVars>>

Advance(result, h2) == Step(result, h2, "")

GenerateReportPlan ==
    /\ AtStage("generateReportPlan")
    /\ \E plan \in Plans :
          LET r == generateReportPlan(currentState, heap, plan)
          IN  Advance(r.result, r.heap)

HumanFeedback ==
    /\ AtStage("humanFeedback")
    /\ Advance(humanFeedback(currentState), heap)

RouteTasks ==
    /\ AtStage("routeTasks")
    /\ Advance(routeTasks(currentState, heap), heap)

GenerateQueries ==
    /\ AtStage("generateQueries")
    /\ \E queries \in GeneratedQueries :
          Advance(generateQueries(currentState, queries), heap)

SearchWeb ==
    /\ AtStage("searchWeb")
    /\ \E searchResult \in SearchResults :
          LET r == searchWeb(currentState, heap, searchResult)
          IN  Advance(r.result, r.heap)

\* graphAgent.ts lines 484-489: the writer has answered and writeSection has
\* assigned section.content; the stage goes on to await the grader
writeSectionWriterAnswers(state, h, text) ==
    [h EXCEPT ![state["section"]].content = text]

\* lines 450-489 of writeSection, up to the await of the grader
WriteSectionWriterAnswers ==
    /\ AtStage("writeSection")
    /\ awaiting = ""
    /\ \E text \in Texts :
          heap' = writeSectionWriterAnswers(currentState, heap, text)
    /\ awaiting' = "grader"
    /\ UNCHANGED <<wf, runStatus, currentNodeName, currentState, maxSteps,
                   max_search_depth, lastResult, trace>>
    /\ UNCHANGED <<supervisorVars, gatewayVars, searchVars>>

\* lines 525-547 of writeSection: the grader has answered; the text is the
\* one the writer gave
WriteSection ==
    /\ AtStage("writeSection")
    /\ awaiting = "grader"
    /\ \E grade \in Grades, follow \in FollowUpQueries :
          LET r == writeSection(currentState, heap,
                                heap[currentState["section"]].content,
                                [grade |-> grade, follow_up_queries |-> follow],
                                max_search_depth)
          IN  Step(r.result, r.heap, grade)

WriteFinalSections ==
    /\ AtStage("writeFinalSections")
    /\ \E text \in Texts :
          LET r == writeFinalSections(currentState, heap, text)
          IN  Advance(r.result, r.heap)

GatherCompletedSections ==
    /\ AtStage("gatherCompletedSections")
    /\ Advance(gatherCompletedSections(currentState, heap), heap)

CompileFinalReport ==
    /\ AtStage("compileFinalReport")
    /\ LET r == compileFinalReport(currentState, heap)
       IN  Advance(r.result, r.heap)

\* the stages that await the model or the search provider
ExternalStages ==
    {"generateReportPlan", "generateQueries", "searchWeb", "writeSection",
     "writeFinalSections"}

\* an await of a stage rejects: run propagates the error.  In writeSection
\* it is the writer's await, or that of the grader when the writer's text is
\* assigned already.
StageThrows ==
    /\ runStatus = "running"
    /\ maxSteps > 0
    /\ currentNodeName \in DOMAIN wf.nodes
    /\ wf.nodes[currentNodeName] \in ExternalStages
    /\ maxSteps' = maxSteps - 1
    /\ runStatus' = "thrown"
    /\ trace' = Append(trace, Entry(TRUE, "", Invalid))
    /\ awaiting' = ""
    /\ UNCHANGED <<wf, currentNodeName, currentState, heap, max_search_depth, lastResult>>
    /\ UNCHANGED <<supervisorVars, gatewayVars, searchVars>>

\* lines 117, 187-190: while (maxSteps-- > 0) fails; run returns currentState
StepsExhausted ==
    /\ runStatus = "running"
    /\ maxSteps = 0
    /\ maxSteps' = maxSteps - 1
    /\ runStatus' = "returned"
    /\ UNCHANGED <<wf, currentNodeName, currentState, heap, max_search_depth, awaiting,
                   lastResult, trace>>
    /\ UNCHANGED <<supervisorVars, gatewayVars, searchVars>>

\* generateReport, after the await of run: returns the report or throws
GenerateReportSettles ==
    /\ runStatus \in {"returned", "thrown"}
    /\ LET r == generateReport(runStatus, currentState)
       IN  /\ runStatus' = IF r.kind = "report" THEN "resolved" ELSE "rejected"
           /\ lastResult' = r
    /\ UNCHANGED <<wf, currentNodeName, currentState, maxSteps, heap,
                   max_search_depth, awaiting, trace>>
    /\ UNCHANGED <<supervisorVars, gatewayVars, searchVars>>

Next ==
    \/ RunStart
    \/ GenerateReportPlan
    \/ HumanFeedback
    \/ RouteTasks
    \/ GenerateQueries
    \/ SearchWeb
    \/ WriteSectionWriterAnswers
    \/ WriteSection
    \/ WriteFinalSections
    \/ GatherCompletedSections
    \/ CompileFinalReport
    \/ StageThrows
    \/ StepsExhausted
    \/ GenerateReportSettles

Spec == Init /\ [][Next]_vars

----------------------------------------------------------------------------
(* MastraGraph.run on graphs other than the report graph: stages that may  *)
(* return anything, edges to stages that were never added, several         *)
(* conditional edges that hold at once, a cycle, no entry point.           *)

testGraph ==
    LET n1 == addNode(newGraph, "a", "stub")
        n2 == addNode(n1, "b", "stub")
        n3 == addNode(n2, "write-section", "stub")
        n4 == addNode(n3, "compile-final-report", "stub")
        e1 == addEdge(n4, "a", "b")
        e2 == addEdge(e1, "a", "a")
        e3 == addEdge(e2, "b", "ghost")
        c1 == addConditionalEdge(e3, "a", "b", FlagIs("on"))
        c2 == addConditionalEdge(c1, "a", "compile-final-report", GotoIs("a"))
        c3 == addConditionalEdge(c2, "a", "ghost", GotoIs("b"))
        c4 == addConditionalEdge(c3, "b", "a", GotoIs("again"))
    IN  c4

TestGraphs == {testGraph, setEntryPoint(testGraph, "a"), setEntryPoint(testGraph, "ghost")}

StubUpdates ==
    {NoUpdate, [flag |-> "on"], [flag |-> "off"], [final_report |-> "r"]}

StubGotos == {"a", "b", "again", "write-section", "compile-final-report", "ghost", END}

\* what a stage may return: not an object, a partial state, an object whose
\* goto is no string (a partial state to run), or a Command
StubResults ==
    {Invalid, Partial([goto |-> <<"a", "b">>])}
        \cup {Partial(u) : u \in StubUpdates}
        \cup {Command(t, u) : t \in StubGotos, u \in StubUpdates}

InitEngine ==
    /\ wf \in TestGraphs
    /\ runStatus = "idle"
    /\ currentNodeName = Null
    /\ currentState = [topic |-> "X"]
    /\ maxSteps = MaxStepsInit
    /\ heap = <<>>
    /\ max_search_depth = 0
    /\ awaiting = ""
    /\ lastResult = Invalid
    /\ trace = <<>>
    /\ SupervisorIdle
    /\ GatewayIdle
    /\ SearchIdle

\* one turn of the loop at a stage of a test graph; the history keeps the
\* last stage only
ExecStub ==
    /\ AtStage("stub")
    /\ \E result \in StubResults :
          LET o == RunResult(wf, currentNodeName, currentState, result)
          IN  /\ maxSteps' = maxSteps - 1
              /\ runStatus' = IF o.status = "continue" THEN "running" ELSE o.status
              /\ currentNodeName' = o.node
              /\ currentState' = o.state
              /\ lastResult' = result
              /\ trace' = <<Entry(FALSE, "", result)>>
              /\ UNCHANGED <<wf, heap, max_search_depth, awaiting>>
              /\ UNCHANGED <<supervisorVars, gatewayVars, searchVars>>

\* lines 118-119: this.nodes.get(currentNodeName) is undefined
NodeNotFound ==
    /\ runStatus = "running"
    /\ maxSteps > 0
    /\ currentNodeName \notin DOMAIN wf.nodes
    /\ maxSteps' = maxSteps - 1
    /\ runStatus' = "thrown"
    /\ UNCHANGED <<wf, currentNodeName, currentState, heap, max_search_depth, awaiting,
                   lastResult, trace>>
    /\ UNCHANGED <<supervisorVars, gatewayVars, searchVars>>

NextEngine ==
    \/ RunStart
    \/ ExecStub
    \/ NodeNotFound
    \/ StepsExhausted

SpecEngine == InitEngine /\ [][NextEngine]_vars

----------------------------------------------------------------------------
(* routeTasks as a function: applied once to a state drawn from a bounded  *)
(* set of report states                                                    *)

\* longest sections and completed_sections list given to routeTasks
MaxRouteLen == 2

SeqsUpTo(S, n) == UNION {[1..k -> S] : k \in 0..n}

RouteHeap ==
    << Section("A", "about A", TRUE, "", <<>>),
       Section("A", "about A", FALSE, "", <<>>),
       Section("B", "about B", TRUE, "", <<>>),
       Section("B", "about B", FALSE, "", <<>>),
       Section("C", "about C", TRUE, "", <<>>),
       Section("C", "about C", FALSE, "", <<>>),
       Section("A", "about A", FALSE, "done a", <<>>),
       Section("B", "about B", TRUE, "done b", <<>>),
       Section("C", "about C", FALSE, "done c", <<>>) >>

RouteStates ==
    {Merge([topic |-> "X", sections |-> secs, completed_sections |-> done,
            feedback_on_report_plan |-> <<>>], extra) :
        secs \in SeqsUpTo(1..6, MaxRouteLen),
        done \in SeqsUpTo({1, 4, 7, 8, 9}, MaxRouteLen),
        extra \in {NoUpdate, [report_sections_from_research |-> "research so far"]}}

InitRoute ==
    /\ wf = graph
    /\ runStatus = "given"
    /\ currentNodeName = "route-tasks"
    /\ currentState \in RouteStates
    /\ maxSteps = MaxStepsInit
    /\ heap = RouteHeap
    /\ max_search_depth = 0
    /\ awaiting = ""
    /\ lastResult = Invalid
    /\ trace = <<>>
    /\ SupervisorIdle
    /\ GatewayIdle
    /\ SearchIdle

ApplyRouteTasks ==
    /\ runStatus = "given"
    /\ runStatus' = "applied"
    /\ lastResult' = routeTasks(currentState, heap)
    /\ UNCHANGED <<wf, currentNodeName, currentState, maxSteps, heap,
                   max_search_depth, awaiting, trace>>
    /\ UNCHANGED <<supervisorVars, gatewayVars, searchVars>>

NextRoute == ApplyRouteTasks

SpecRoute == InitRoute /\ [][NextRoute]_vars

----------------------------------------------------------------------------
(* compileFinalReport as a function: applied, and applied again, to a      *)
(* state drawn from a bounded set: sections and completed sections that    *)
(* are the same objects or copies, completed content that is empty,        *)
(* sources that repeat a url within and across sections, a section named   *)
(* like a property of Object.prototype                                     *)

\* longest sections and completed_sections list given to compileFinalReport
MaxCompileLen == 2

CompileHeap ==
    << Section("A", "about A", TRUE, "",
               <<Source("http://u1", "t1"), Source("http://u2", "t2")>>),
       Section("B", "about B", FALSE, "old b",
               <<Source("http://u2", "t2 again"), Source("http://u3", "t3")>>),
       Section("A", "about A", TRUE, "new a", <<Source("http://u4", "t4")>>),
       Section("B", "about B", FALSE, "", <<>>),
       Section("constructor", "about constructors", FALSE, "prior c", <<>>),
       Section("A", "about A", TRUE, "old a",
               <<Source("http://u1", "t1"), Source("http://u1", "t1 again")>>),
       Section("B", "about B", FALSE, "new b", <<>>) >>

CompileStates ==
    {[topic |-> "X", sections |-> secs, completed_sections |-> done,
      feedback_on_report_plan |-> <<>>] :
        secs \in SeqsUpTo({1, 2, 5, 6}, MaxCompileLen),
        done \in SeqsUpTo({1, 2, 3, 4, 7}, MaxCompileLen)}

InitCompile ==
    /\ wf = graph
    /\ runStatus = "to compile"
    /\ currentNodeName = "compile-final-report"
    /\ currentState \in CompileStates
    /\ maxSteps = MaxStepsInit
    /\ heap = CompileHeap
    /\ max_search_depth = 0
    /\ awaiting = ""
    /\ lastResult = Invalid
    /\ trace = <<>>
    /\ SupervisorIdle
    /\ GatewayIdle
    /\ SearchIdle

\* compileFinalReport(state)
ApplyCompile ==
    /\ runStatus = "to compile"
    /\ runStatus' = "compiled"
    /\ LET r == compileFinalReport(currentState, heap)
       IN  lastResult' = r.result /\ heap' = r.heap
    /\ UNCHANGED <<wf, currentNodeName, currentState, maxSteps, max_search_depth, awaiting, trace>>
    /\ UNCHANGED <<supervisorVars, gatewayVars, searchVars>>

\* compileFinalReport(state) once more, on the state the first call left
ApplyCompileAgain ==
    /\ runStatus = "compiled"
    /\ runStatus' = "compiled twice"
    /\ LET r == compileFinalReport(currentState, heap)
       IN  lastResult' = r.result /\ heap' = r.heap
    /\ UNCHANGED <<wf, currentNodeName, currentState, maxSteps, max_search_depth, awaiting, trace>>
    /\ UNCHANGED <<supervisorVars, gatewayVars, searchVars>>

NextCompile ==
    \/ ApplyCompile
    \/ ApplyCompileAgain

SpecCompile == InitCompile /\ [][NextCompile]_vars

----------------------------------------------------------------------------
(* searchWeb applied pass after pass to one section, on whatever           *)
(* selectAndExecuteSearch returns                                          *)

\* most search-web passes on the section
MaxPasses == 3

\* the sources the section starts with: no url twice
StartSources ==
    {<<>>,
     <<Source("http://u1", "t1")>>,
     <<Source("http://u2", "t2"), Source("http://u1", "t1")>>}

\* what selectAndExecuteSearch may return: no source, new sources, sources
\* the section may have, one url twice
SearchWebResults ==
    {[formattedOutput |-> "No valid search results", sources |-> <<>>],
     [formattedOutput |-> "results u1 u2",
      sources |-> <<Source("http://u1", "t1"), Source("http://u2", "t2")>>],
     [formattedOutput |-> "results u2 u3 u3",
      sources |-> <<Source("http://u2", "t2 again"), Source("http://u3", "t3"),
                    Source("http://u3", "t3 again")>>],
     [formattedOutput |-> "results u3 u1",
      sources |-> <<Source("http://u3", "t3"), Source("http://u1", "t1 again")>>]}

InitSearchWeb ==
    /\ wf = graph
    /\ runStatus = "to search"
    /\ currentNodeName = "search-web"
    /\ currentState = [topic |-> "X", section |-> 1, search_iterations |-> 0,
                       search_queries |-> <<[search_query |-> "q1"]>>]
    /\ maxSteps = MaxStepsInit
    /\ \E sources \in StartSources :
          heap = <<Section("A", "about A", TRUE, "", sources)>>
    /\ max_search_depth = 0
    /\ awaiting = ""
    /\ lastResult = Invalid
    /\ trace = <<>>
    /\ SupervisorIdle
    /\ GatewayIdle
    /\ SearchIdle

\* searchWeb(state), the state it returns merged as run does
ApplySearchWeb ==
    /\ runStatus = "to search"
    /\ currentState["search_iterations"] < MaxPasses
    /\ \E searchResult \in SearchWebResults :
          LET r == searchWeb(currentState, heap, searchResult)
          IN  /\ lastResult' = r.result
              /\ heap' = r.heap
              /\ currentState' = Merge(currentState, r.result.update)
              /\ trace' = Append(trace, [node |-> currentNodeName,
                                         returned |-> searchResult.sources])
    /\ UNCHANGED <<wf, runStatus, currentNodeName, maxSteps, max_search_depth, awaiting>>
    /\ UNCHANGED <<supervisorVars, gatewayVars, searchVars>>

SpecSearchWeb == InitSearchWeb /\ [][ApplySearchWeb]_vars

----------------------------------------------------------------------------
(* formatSections applied to a list of sections (the lists of              *)
(* tools/utils.test.ts among them)                                         *)

\* longest list given to formatSections
MaxFormatLen == 3

\* the sections of utils.test.ts, and one whose content is the empty string
FormatPool ==
    {Section("Introduction", "This is the introduction.", FALSE,
             "Introduction content goes here.", <<>>),
     Section("Section 1", "Description for section 1.", TRUE, "Content for section 1.",
             <<Source("http://example.com/s1", "Source 1")>>),
     Section("Section 2", "Description for section 2.", FALSE, "Content for section 2.",
             Undefined),
     Section("Future Section", "This section is planned.", TRUE, Undefined, <<>>),
     Section("Empty Section", "", FALSE, "", <<>>)}

InitFormat ==
    /\ wf = graph
    /\ runStatus = "to format"
    /\ currentNodeName = Null
    /\ currentState = NoUpdate
    /\ maxSteps = MaxStepsInit
    /\ heap \in SeqsUpTo(FormatPool, MaxFormatLen)
    /\ max_search_depth = 0
    /\ awaiting = ""
    /\ lastResult = Invalid
    /\ trace = <<>>
    /\ SupervisorIdle
    /\ GatewayIdle
    /\ SearchIdle

\* formatSections(sections)
ApplyFormat ==
    /\ runStatus = "to format"
    /\ runStatus' = "formatted"
    /\ lastResult' = [kind |-> "text", text |-> formatSections(heap)]
    /\ UNCHANGED <<wf, currentNodeName, currentState, maxSteps, heap, max_search_depth, awaiting,
                   trace>>
    /\ UNCHANGED <<supervisorVars, gatewayVars, searchVars>>

SpecFormat == InitFormat /\ [][ApplyFormat]_vars

----------------------------------------------------------------------------
(* researchAndWriteSectionTool (agents/researcherAgent.ts): the loop that   *)
(* researches and writes one section with generateQueries, searchWeb and   *)
(* writeSection.  currentState stands for currentSectionState, heap holds  *)
(* the copy of the section, max_search_depth is what loadConfig returned   *)
(* (a list of one number, the empty list when it is undefined or NaN) and  *)
(* currentNodeName is the point the loop is at.                            *)

\* const max_search_depth = configuration.max_search_depth || 2
DefaultSearchDepth == 2

\* a local max_search_depth that is one more than configured
LocalMaxSearchDepthPlusOne(configured) ==
    IF configured = <<>> \/ configured = <<0>>
    THEN DefaultSearchDepth + 1 ELSE configured[1] + 1

\* line 65
LocalMaxSearchDepth(configured) ==
    IF configured = <<>> \/ configured = <<0>> THEN DefaultSearchDepth ELSE configured[1]

\* lines 53-62: the section is copied, its sources' titles are the first
\* queries
InitResearcher ==
    /\ wf = newGraph
    /\ runStatus = "researching"
    /\ currentNodeName = "while"
    /\ \E sources \in {<<>>, <<Source("http://u1", "t1")>>} :
          /\ heap = <<Section("A", "about A", TRUE, "", sources)>>
          /\ currentState =
                [topic |-> "X", section |-> 1, search_iterations |-> 0,
                 search_queries |->
                    [j \in 1..Len(sources) |-> [search_query |-> sources[j].title]],
                 source_str |-> ""]
    /\ maxSteps = MaxStepsInit
    /\ max_search_depth \in {<<>>} \cup {<<d>> : d \in Depths}
    /\ awaiting = ""
    /\ lastResult = Invalid
    /\ trace = <<>>
    /\ SupervisorIdle
    /\ GatewayIdle
    /\ SearchIdle

\* line 123: return { completed_section: currentSectionState.section }
ResearchReturns(h) ==
    /\ runStatus' = "returned"
    /\ currentNodeName' = "end"
    /\ lastResult' = [kind |-> "section", completed_section |-> h[1]]

\* lines 67-69: the test of the while loop and of the queries at hand
ResearchLoopTest ==
    /\ runStatus = "researching"
    /\ currentNodeName = "while"
    /\ IF currentState["search_iterations"] < LocalMaxSearchDepth(max_search_depth)
       THEN /\ currentNodeName' = IF Len(currentState["search_queries"]) = 0
                                  THEN "generate-queries" ELSE "search-web"
            /\ UNCHANGED <<runStatus, lastResult>>
       ELSE ResearchReturns(heap)
    /\ UNCHANGED <<wf, currentState, maxSteps, heap, max_search_depth, awaiting, trace>>
    /\ UNCHANGED <<supervisorVars, gatewayVars, searchVars>>

\* lines 70-79: the await of generateQueries returned
ResearchGenerateQueries ==
    /\ runStatus = "researching"
    /\ currentNodeName = "generate-queries"
    /\ \E queries \in GeneratedQueries \cup {<<>>} :
          /\ currentState' = Merge(currentState, generateQueries(currentState, queries).update)
          /\ trace' = Append(trace, [node |-> currentNodeName, goto |-> ""])
          /\ IF Len(queries) = 0
             THEN ResearchReturns(heap)
             ELSE currentNodeName' = "search-web" /\ UNCHANGED <<runStatus, lastResult>>
    /\ UNCHANGED <<wf, maxSteps, heap, max_search_depth, awaiting>>
    /\ UNCHANGED <<supervisorVars, gatewayVars, searchVars>>

\* lines 85-86: the await of searchWeb returned
ResearchSearchWeb ==
    /\ runStatus = "researching"
    /\ currentNodeName = "search-web"
    /\ \E searchResult \in SearchResults :
          LET r == searchWeb(currentState, heap, searchResult)
          IN  /\ currentState' = Merge(currentState, r.result.update)
              /\ heap' = r.heap
    /\ trace' = Append(trace, [node |-> currentNodeName, goto |-> ""])
    /\ currentNodeName' = "write-section"
    /\ UNCHANGED <<wf, runStatus, maxSteps, max_search_depth, awaiting, lastResult>>
    /\ UNCHANGED <<supervisorVars, gatewayVars, searchVars>>

\* line 92, in writeSection (graphAgent.ts 484-489): the writer has answered,
\* the text is assigned to the section and the grader is awaited
ResearchWriterAnswers ==
    /\ runStatus = "researching"
    /\ currentNodeName = "write-section"
    /\ awaiting = ""
    /\ \E text \in Texts :
          heap' = writeSectionWriterAnswers(currentState, heap, text)
    /\ awaiting' = "grader"
    /\ UNCHANGED <<wf, runStatus, currentNodeName, currentState, maxSteps,
                   max_search_depth, lastResult, trace>>
    /\ UNCHANGED <<supervisorVars, gatewayVars, searchVars>>

\* lines 92-115: the await of writeSection returned.  writeSection compares
\* search_iterations with the configured depth itself: the comparison with
\* undefined is false, as it is with a depth above the count.  The grader
\* may leave follow_up_queries out (listed is false): the command's
\* update.search_queries is undefined then.
ResearchWriteSection ==
    /\ runStatus = "researching"
    /\ currentNodeName = "write-section"
    /\ awaiting = "grader"
    /\ awaiting' = ""
    /\ \E grade \in Grades, listed \in BOOLEAN,
          follow \in FollowUpQueries \cup {<<>>} :
          LET depth == IF max_search_depth = <<>>
                       THEN currentState["search_iterations"] + 1
                       ELSE max_search_depth[1]
              r == writeSection(currentState, heap,
                                heap[currentState["section"]].content,
                                [grade |-> grade, follow_up_queries |-> follow], depth)
              writeCommand == r.result
          IN  /\ heap' = r.heap
              /\ trace' = Append(trace, [node |-> currentNodeName,
                                         goto |-> writeCommand.goto])
              /\ IF writeCommand.goto = END
                 THEN ResearchReturns(r.heap) /\ UNCHANGED currentState
                 ELSE IF writeCommand.goto = "search-web" /\ listed
                 THEN /\ currentState' = [currentState EXCEPT !["search_queries"] =
                                             writeCommand.update["search_queries"]]
                      /\ IF currentState["search_iterations"]
                               >= LocalMaxSearchDepth(max_search_depth)
                         THEN ResearchReturns(r.heap)
                         ELSE /\ currentNodeName' = "while"
                              /\ UNCHANGED <<runStatus, lastResult>>
                 ELSE ResearchReturns(r.heap) /\ UNCHANGED currentState
    /\ UNCHANGED <<wf, maxSteps, max_search_depth>>
    /\ UNCHANGED <<supervisorVars, gatewayVars, searchVars>>

\* one of the three awaits rejects, that of writeSection before or after the
\* writer's text was assigned: execute propagates the error
ResearchStageRejects ==
    /\ runStatus = "researching"
    /\ currentNodeName \in {"generate-queries", "search-web", "write-section"}
    /\ runStatus' = "thrown"
    /\ trace' = Append(trace, [node |-> currentNodeName, goto |-> "<threw>"])
    /\ awaiting' = ""
    /\ UNCHANGED <<wf, currentNodeName, currentState, maxSteps, heap, max_search_depth,
                   lastResult>>
    /\ UNCHANGED <<supervisorVars, gatewayVars, searchVars>>

NextResearcher ==
    \/ ResearchLoopTest
    \/ ResearchGenerateQueries
    \/ ResearchSearchWeb
    \/ ResearchWriterAnswers
    \/ ResearchWriteSection
    \/ ResearchStageRejects

\* execute is one async function: a step that can be taken is taken
SpecResearcher == InitResearcher /\ [][NextResearcher]_vars /\ WF_vars(NextResearcher)

----------------------------------------------------------------------------
(* runSupervisorWorkflow (agents/supervisorAgent.ts): the outline, the     *)
(* research sections, the non-research sections, the compilation.  The     *)
(* workflow holds sections it got from tools, which are values here.  The  *)
(* researcher works on a shallow copy of the section it is given           *)
(* (researcherAgent.ts 56), whose sources list is the list of the object   *)
(* it was given.  When the two callTool on the way (library functions)     *)
(* hand the argument object on, that is the list of the outline's section: *)
(* the sources a search finds appear in reportSections while the workflow  *)
(* awaits the researcher (ResearcherPushesSources).  When a callTool       *)
(* copies, the outline's section stays as it is.  Both can happen here.    *)

\* toolCallOutput is missing, or lacks the field the workflow reads
NoOutput == [kind |-> "none"]

\* the sources a search of the researcher finds
ResearchFound == <<Source("http://u1", "t1")>>

\* runResearchForSection returned a section / threw, after the researcher
\* had pushed these sources to the list of the tool's section_to_research
Researched(section) == [kind |-> "section", section |-> section]
ResearchThrew(message, pushed) ==
    [kind |-> "threw", message |-> message, pushed |-> pushed]

\* the tool's section_to_research as the researcher left it: searchWeb pushes
\* the sources whose url the list does not have (graphAgent.ts 428-436)
AfterResearch(section_to_research, research) ==
    [section_to_research EXCEPT !.sources = AddUnique(@, research.pushed)]

\* invokeResearcherAgentTool.execute: a failure of the researcher is caught
\* and turned into the section, as it is after the await, with an error note
\* in its content
invokeResearcherAgentTool(section_to_research, research) ==
    IF research.kind = "section"
    THEN [kind |-> "output", completed_section |-> research.section]
    ELSE [kind |-> "output",
          completed_section |->
              [AfterResearch(section_to_research, research) EXCEPT
                  !.content = @ \o "\n\n**Error during research: "
                                \o research.message \o "**"]]

\* writeNonResearchSectionTool.execute
writeNonResearchSectionTool(section_to_write, text) ==
    [kind |-> "output", completed_section |-> [section_to_write EXCEPT !.content = text]]

\* a map in which the first section of a name stays
ToolLookupFirst(sections, name) ==
    LET hits == {j \in 1..Len(sections) : sections[j].name = name}
    IN  IF name = "__proto__" THEN "[object Object]"
        ELSE sections[CHOOSE j \in hits : \A k \in hits : j <= k].content

\* completedSectionsMap[name] in compileReportTool: every section of the list
\* has stored its content under its name, the last one of a name stays
ToolLookup(sections, name) ==
    LET hits == {j \in 1..Len(sections) : sections[j].name = name}
    IN  IF name = "__proto__" THEN "[object Object]"
        ELSE sections[CHOOSE j \in hits : \A k \in hits : k <= j].content

\* push each source that has a url not yet in the list
RECURSIVE ToolAddUnique(_, _)
ToolAddUnique(existing, incoming) ==
    IF Len(incoming) = 0 THEN existing
    ELSE LET src == incoming[1]
             seen == {existing[i].url : i \in 1..Len(existing)}
         IN  ToolAddUnique(IF src.url = "" \/ src.url \in seen
                           THEN existing ELSE Append(existing, src),
                           Tail(incoming))

RECURSIVE ToolBibliographyLines(_, _)
ToolBibliographyLines(sources, index) ==
    IF index >= Len(sources) THEN ""
    ELSE ToString(index + 1) \o ". ["
            \o (IF sources[index + 1].title # "" THEN sources[index + 1].title
                ELSE "Untitled")
            \o "](" \o sources[index + 1].url \o ")\n"
            \o ToolBibliographyLines(sources, index + 1)

\* compileReportTool.execute
compileReportTool(sections) ==
    LET content(i) == LET found == ToolLookup(sections, sections[i].name)
                      IN  IF found # "" THEN found ELSE sections[i].content
        allSectionsText == Join([i \in 1..Len(sections) |-> content(i)], "\n\n")
        allSources == ToolAddUnique(<<>>, Concat([i \in 1..Len(sections) |->
                                                    sections[i].sources]))
    IN  [kind |-> "output",
         final_report_text |->
            IF Len(allSources) > 0
            THEN allSectionsText \o BibliographyHeading
                    \o ToolBibliographyLines(allSources, 0)
            ELSE allSectionsText]

\* what the researcher may hand back for a section: the section written,
\* with or without sources, or an error
ResearchOutcomes(section) ==
    {Researched([section EXCEPT !.content = "researched " \o section.name,
                                !.sources = AddUnique(@, ResearchFound)]),
     Researched([section EXCEPT !.content = ""])}
        \cup {ResearchThrew("Research and writing failed for section: "
                               \o section.name, pushed) :
                 pushed \in {<<>>, ResearchFound}}

WrittenTexts == {"", "written"}

ToolEntry(tool, section, outcome) == [tool |-> tool, section |-> section, outcome |-> outcome]

InitSupervisor ==
    /\ RunIdle
    /\ GatewayIdle
    /\ SearchIdle
    /\ supervisorPc = "start"
    /\ reportSections = <<>>
    /\ completedSections = <<>>
    /\ allResearchedContent = ""
    /\ sectionsWrittenInThisStep = <<>>
    /\ loopIndex = 0
    /\ supervisorResult = Undefined
    /\ toolLog = <<>>

\* outlines in which two sections have one name, one of them needing
\* research: nothing keeps the outline tool from returning them
RepeatedNameOutlines ==
    {<<Section("section-1", "first of the name", flag, "", <<>>),
       Section("section-1", "second of the name", ~flag, "", <<>>)>> : flag \in BOOLEAN}

\* lines 339-344: the outline tool answers
Outline ==
    /\ supervisorPc = "start"
    /\ \E out \in {NoOutput} \cup {[kind |-> "output", sections |-> plan] :
                                    plan \in Plans \cup RepeatedNameOutlines} :
          IF out.kind = "none"
          THEN /\ supervisorPc' = "thrown"
               /\ toolLog' = Append(toolLog,
                                ToolEntry("preliminary-search-and-outline", "", "no output"))
               /\ UNCHANGED reportSections
          ELSE /\ supervisorPc' = "research"
               /\ reportSections' = out.sections
               /\ toolLog' = Append(toolLog,
                                ToolEntry("preliminary-search-and-outline", "", "outline"))
    /\ UNCHANGED <<completedSections, allResearchedContent, sectionsWrittenInThisStep,
                   loopIndex, supervisorResult>>
    /\ UNCHANGED <<runVars, gatewayVars, searchVars>>

\* the for loop of lines 348-369 is at a section
AtResearchLoop ==
    /\ supervisorPc = "research"
    /\ loopIndex < Len(reportSections)

\* line 351, while callTool("invoke-researcher-agent") is awaited: a search
\* of the researcher pushes the sources it found to the list its copy shares
\* with the outline's section (researcherAgent.ts 56, graphAgent.ts 428-436)
ResearcherPushesSources ==
    /\ AtResearchLoop
    /\ LET section == reportSections[loopIndex + 1]
           pushed == [section EXCEPT !.sources = AddUnique(@, ResearchFound)]
       IN  /\ section.research
           /\ pushed # section
           /\ reportSections' = [reportSections EXCEPT ![loopIndex + 1] = pushed]
    /\ UNCHANGED <<supervisorPc, completedSections, allResearchedContent,
                   sectionsWrittenInThisStep, loopIndex, supervisorResult, toolLog>>
    /\ UNCHANGED <<runVars, gatewayVars, searchVars>>

\* lines 351-365: the await of callTool("invoke-researcher-agent") is over.
\* section is the outline's section as it is now, with the sources pushed
\* while the call was awaited.
ResearchSection ==
    /\ AtResearchLoop
    /\ LET section == reportSections[loopIndex + 1]
       IN  /\ section.research
           /\ \E research \in ResearchOutcomes(section) :
              \E out \in {NoOutput, invokeResearcherAgentTool(section, research)} :
                 IF out.kind = "none"
                 THEN /\ completedSections' = Append(completedSections, section)
                      /\ toolLog' = Append(toolLog,
                            ToolEntry("invoke-researcher-agent", section.name, "no output"))
                      /\ UNCHANGED allResearchedContent
                 ELSE LET researchedSection == out.completed_section
                      IN  /\ completedSections' = Append(completedSections, researchedSection)
                          /\ allResearchedContent' =
                                allResearchedContent \o "\n\n## " \o researchedSection.name
                                    \o "\n" \o researchedSection.content
                          /\ toolLog' = Append(toolLog,
                                ToolEntry("invoke-researcher-agent", section.name,
                                          IF research.kind = "section"
                                          THEN "completed" ELSE "errored"))
    /\ loopIndex' = loopIndex + 1
    /\ UNCHANGED <<supervisorPc, reportSections, sectionsWrittenInThisStep, supervisorResult>>
    /\ UNCHANGED <<runVars, gatewayVars, searchVars>>

KeepForWriting ==
    /\ AtResearchLoop
    /\ ~reportSections[loopIndex + 1].research
    /\ completedSections' = Append(completedSections, reportSections[loopIndex + 1])
    /\ loopIndex' = loopIndex + 1
    /\ UNCHANGED <<supervisorPc, reportSections, allResearchedContent,
                   sectionsWrittenInThisStep, supervisorResult, toolLog>>
    /\ UNCHANGED <<runVars, gatewayVars, searchVars>>

\* lines 373-377: for each section of the outline the first completed
\* section of its name, else the section itself
Reconcile ==
    /\ supervisorPc = "research"
    /\ loopIndex = Len(reportSections)
    /\ completedSections' =
          [i \in 1..Len(reportSections) |->
              LET hits == {j \in 1..Len(completedSections) :
                              completedSections[j].name = reportSections[i].name}
              IN  IF hits = {} THEN reportSections[i] ELSE completedSections[Min(hits)]]
    /\ supervisorPc' = "write"
    /\ loopIndex' = 0
    /\ UNCHANGED <<reportSections, allResearchedContent, sectionsWrittenInThisStep,
                   supervisorResult, toolLog>>
    /\ UNCHANGED <<runVars, gatewayVars, searchVars>>

\* the for loop of lines 383-406 is at a section
AtWriteLoop ==
    /\ supervisorPc = "write"
    /\ loopIndex < Len(completedSections)

\* lines 385-401: a section that needs no research is written
WriteNonResearchSection ==
    /\ AtWriteLoop
    /\ LET section == completedSections[loopIndex + 1]
       IN  /\ ~section.research
           /\ \E out \in {NoOutput} \cup {writeNonResearchSectionTool(section, text) :
                                            text \in WrittenTexts} :
                 IF out.kind = "none"
                 THEN /\ sectionsWrittenInThisStep' = Append(sectionsWrittenInThisStep, section)
                      /\ toolLog' = Append(toolLog,
                            ToolEntry("write-non-research-section", section.name, "no output"))
                 ELSE /\ sectionsWrittenInThisStep' =
                            Append(sectionsWrittenInThisStep, out.completed_section)
                      /\ toolLog' = Append(toolLog,
                            ToolEntry("write-non-research-section", section.name, "written"))
    /\ loopIndex' = loopIndex + 1
    /\ UNCHANGED <<supervisorPc, reportSections, completedSections, allResearchedContent,
                   supervisorResult>>
    /\ UNCHANGED <<runVars, gatewayVars, searchVars>>

\* lines 402-405: a researched section is passed on
KeepResearched ==
    /\ AtWriteLoop
    /\ completedSections[loopIndex + 1].research
    /\ sectionsWrittenInThisStep' =
          Append(sectionsWrittenInThisStep, completedSections[loopIndex + 1])
    /\ loopIndex' = loopIndex + 1
    /\ UNCHANGED <<supervisorPc, reportSections, completedSections, allResearchedContent,
                   supervisorResult, toolLog>>
    /\ UNCHANGED <<runVars, gatewayVars, searchVars>>

\* lines 407-421: the report is compiled and returned
CompileReport ==
    /\ supervisorPc = "write"
    /\ loopIndex = Len(completedSections)
    /\ completedSections' = sectionsWrittenInThisStep
    /\ \E out \in {NoOutput, compileReportTool(sectionsWrittenInThisStep)} :
          IF out.kind = "none"
          THEN /\ supervisorPc' = "thrown"
               /\ toolLog' = Append(toolLog, ToolEntry("compile-report", "", "no output"))
               /\ UNCHANGED supervisorResult
          ELSE /\ supervisorPc' = "returned"
               /\ supervisorResult' = out.final_report_text
               /\ toolLog' = Append(toolLog, ToolEntry("compile-report", "", "compiled"))
    /\ UNCHANGED <<reportSections, allResearchedContent, sectionsWrittenInThisStep, loopIndex>>
    /\ UNCHANGED <<runVars, gatewayVars, searchVars>>

\* an awaited supervisor.callTool rejects: the workflow throws.  The call of
\* compile-report is made after completedSections was assigned the sections
\* written (line 407).
CallToolRejects ==
    /\ \/ supervisorPc = "start"
       \/ AtResearchLoop /\ reportSections[loopIndex + 1].research
       \/ AtWriteLoop /\ ~completedSections[loopIndex + 1].research
       \/ supervisorPc = "write" /\ loopIndex = Len(completedSections)
    /\ completedSections' =
          IF supervisorPc = "write" /\ loopIndex = Len(completedSections)
          THEN sectionsWrittenInThisStep ELSE completedSections
    /\ supervisorPc' = "thrown"
    /\ toolLog' = Append(toolLog, ToolEntry("callTool", "", "rejected"))
    /\ UNCHANGED <<reportSections, allResearchedContent,
                   sectionsWrittenInThisStep, loopIndex, supervisorResult>>
    /\ UNCHANGED <<runVars, gatewayVars, searchVars>>

NextSupervisor ==
    \/ Outline
    \/ ResearcherPushesSources
    \/ ResearchSection
    \/ KeepForWriting
    \/ Reconcile
    \/ WriteNonResearchSection
    \/ KeepResearched
    \/ CompileReport
    \/ CallToolRejects

SpecSupervisor == InitSupervisor /\ [][NextSupervisor]_vars

----------------------------------------------------------------------------
(* tavilySearchAsync (tools/utils.ts): the cache, the batches of provider  *)
(* requests, the answer in the order of the queries.  A request is in      *)
(* flight from the moment its batch is issued until the provider answers   *)
(* or fails; Promise.all lets the call go on at the first failure of a     *)
(* batch, while the other request of that batch may still be in flight.    *)

\* most queries in one call
MaxQueries == 3
\* most calls of tavilySearchAsync in the process
MaxCalls == 2

\* const batchSize = 2
batchSize == 2

Queries == {"q1", "q2", "q3"}

\* the lists of at most n different elements of S
DistinctSeqsUpTo(S, n) ==
    {qs \in SeqsUpTo(S, n) : \A j, k \in 1..Len(qs) : j # k => qs[j] # qs[k]}

\* maxResults: number = 5
DefaultMaxResults == 5

\* the arguments of a call: any list of different queries with the default
\* maxResults, a list that has a query twice (in one batch, in two batches),
\* or one query with another maxResults; topic and includeRawContent are the
\* defaults
CallArguments ==
    {[searchQueries |-> qs, maxResults |-> DefaultMaxResults] :
        qs \in DistinctSeqsUpTo(Queries, MaxQueries)
                  \cup {<<"q1", "q1">>, <<"q1", "q2", "q1">>}}
      \cup {[searchQueries |-> <<"q1">>, maxResults |-> 3]}

\* a cache key that leaves the parameters out
cacheKeyQueryOnly(query, maxResults, topic, includeRawContent) == query

\* `${query}:${maxResults}:${topic}:${includeRawContent}`
cacheKey(query, maxResults, topic, includeRawContent) ==
    query \o ":" \o ToString(maxResults) \o ":" \o topic \o ":" \o BoolStr(includeRawContent)

\* the key of a query of the running call
KeyOf(query) == cacheKey(query, call.maxResults, call.topic, call.includeRawContent)

\* a SearchResult
Result(url, title, content, raw_content) ==
    [url |-> url, title |-> title, content |-> content, raw_content |-> raw_content]

\* what the provider finds for each query: q1 and q2 share one url, which
\* q2 lists under another title; q2 also lists a url that is no web address
\* and an untitled page without a summary or raw content; q3 finds a result
\* whose url does not parse and one without a url
ProviderResults(query) ==
    CASE query = "q1" -> <<Result("https://a.example/1", "t1", "c1", "raw 1"),
                           Result("http://b.example/2", "t2", "c2", Undefined)>>
      [] query = "q2" -> <<Result("http://b.example/2", "t2 again", "c2 again", "raw 2"),
                           Result("ftp://c.example/3", "t3", "", "raw 3"),
                           Result("https://d.example/4", "", "", Undefined)>>
      [] OTHER -> <<Result("not a url", "t5", "c5", Undefined),
                    Result("", "t6", "c6", Undefined)>>

\* response.data: what the provider answers for a query
ProviderResponse(query) ==
    [query |-> query, results |-> ProviderResults(query), error |-> Undefined]

\* what the provider may answer to a request: two requests for one query
\* need not get the same answer (the index the provider searches changes)
ProviderAnswers(query) ==
    {ProviderResponse(query)}
        \cup (IF query = "q1"
              THEN {[query |-> "q1",
                     results |-> <<Result("https://a.example/1", "t1 updated", "c1 updated",
                                          "raw 1 updated")>>,
                     error |-> Undefined]}
              ELSE {})

\* error.message of a failed provider request: tavilySearchAsync passes the
\* message on without reading it, so the failure the provider is most likely
\* to answer with, a rate limit, stands for every failure
FailureMessages == {"Ratelimit exceeded"}

\* lines 224-231
ErrorResponse(query, message) == [query |-> query, results |-> <<>>, error |-> message]

\* a cache that stores nothing
StoreInCacheNever(cache, key, response) == cache

\* searchCache[cacheKey] = result
StoreInCache(cache, key, response) ==
    [k \in (DOMAIN cache) \cup {key} |-> IF k = key THEN response ELSE cache[k]]

\* lines 183-191: the responses of the cached queries, in order
RECURSIVE CachedResults(_, _, _, _, _)
CachedResults(cache, queries, maxResults, topic, includeRawContent) ==
    IF Len(queries) = 0 THEN <<>>
    ELSE LET key == cacheKey(queries[1], maxResults, topic, includeRawContent)
             rest == CachedResults(cache, Tail(queries), maxResults, topic,
                                   includeRawContent)
         IN  IF key \in DOMAIN cache THEN <<cache[key]>> \o rest ELSE rest

\* lines 183-191: the queries the cache has no response for, in order
UncachedQueries(cache, queries, maxResults, topic, includeRawContent) ==
    SelectSeq(queries,
              LAMBDA q : cacheKey(q, maxResults, topic, includeRawContent)
                            \notin DOMAIN cache)

\* the results in the order they were collected: cached ones first
OrderedAsCollected(queries, results) == results

\* lines 237-243: for each query the first result that names it, if any
RECURSIVE Ordered(_, _)
Ordered(queries, results) ==
    IF Len(queries) = 0 THEN <<>>
    ELSE LET hits == {j \in 1..Len(results) : results[j].query = queries[1]}
         IN  (IF hits = {} THEN <<>> ELSE <<results[Min(hits)]>>)
                \o Ordered(Tail(queries), results)

\* uncachedQueries.slice(i, i + batchSize), each with its request pending
BatchAt(uncached, i) ==
    [k \in 1..Min({batchSize, Len(uncached) - i}) |->
        [query |-> uncached[i + k], status |-> "pending", result |-> Undefined]]

InitGateway ==
    /\ RunIdle
    /\ SupervisorIdle
    /\ GatewayIdle
    /\ SearchIdle

\* lines 173-214: the call partitions its queries by the cache and issues the
\* first batch, or returns when every query is cached
BeginCall(searchQueries, maxResults, topic, includeRawContent) ==
    LET keyOf(q) == cacheKey(q, maxResults, topic, includeRawContent)
              results == CachedResults(searchCache, searchQueries, maxResults,
                                       topic, includeRawContent)
              uncached == UncachedQueries(searchCache, searchQueries, maxResults,
                                          topic, includeRawContent)
              batch == BatchAt(uncached, 0)
              log == [gatewayLog EXCEPT
                         !.calls = @ + 1,
                         !.cacheAtStart = searchCache,
                         !.answeredAtStart = gatewayLog.answered \cap
                             {keyOf(searchQueries[j]) : j \in 1..Len(searchQueries)},
                         !.containedAtStart = gatewayLog.contained \cap
                             {keyOf(searchQueries[j]) : j \in 1..Len(searchQueries)},
                         !.contained = @ \cup {keyOf(searchQueries[j]) :
                                                  j \in 1..Len(searchQueries)},
                         !.requested = [k \in 1..Len(batch) |-> keyOf(batch[k].query)],
                         !.fulfilled = {}, !.rejected = {}, !.delays = 0]
          IN  /\ call' = [searchQueries |-> searchQueries, maxResults |-> maxResults,
                          topic |-> topic, includeRawContent |-> includeRawContent,
                          results |-> results, uncachedQueries |-> uncached,
                          i |-> 0, batch |-> batch, batchError |-> Undefined]
              /\ gatewayLog' = log
              /\ IF Len(uncached) = 0
                 THEN /\ gatewayPc' = "returned"
                      /\ orderedResults' = Ordered(searchQueries, results)
                 ELSE /\ gatewayPc' = "await batch"
                      /\ UNCHANGED orderedResults
              /\ UNCHANGED <<searchCache, strayRequests>>

\* tavilySearchAsync is called
StartCall ==
    /\ gatewayPc \in {"idle", "returned"}
    /\ gatewayLog.calls < MaxCalls
    /\ \E args \in CallArguments :
          BeginCall(args.searchQueries, args.maxResults, "general", TRUE)
    /\ UNCHANGED <<runVars, supervisorVars, searchVars>>

\* lines 204-209: the provider answers a request of the batch; the answer is
\* stored in the cache
RequestFulfils ==
    /\ gatewayPc = "await batch"
    /\ \E k \in 1..Len(call.batch) :
       \E result \in ProviderAnswers(call.batch[k].query) :
          /\ call.batch[k].status = "pending"
          /\ call' = [call EXCEPT !.batch[k].status = "fulfilled",
                                  !.batch[k].result = result]
          /\ searchCache' = StoreInCache(searchCache, KeyOf(call.batch[k].query), result)
          /\ gatewayLog' = [gatewayLog EXCEPT
                                !.answered = @ \cup {KeyOf(call.batch[k].query)},
                                !.fulfilled = @ \cup {call.batch[k].query}]
    /\ UNCHANGED <<gatewayPc, strayRequests, orderedResults>>
    /\ UNCHANGED <<runVars, supervisorVars, searchVars>>

\* the provider request fails (tavilyClient.search rethrows); Promise.all
\* rejects with the error of the first request that failed
RequestRejects ==
    /\ gatewayPc = "await batch"
    /\ \E k \in 1..Len(call.batch), message \in FailureMessages :
          /\ call.batch[k].status = "pending"
          /\ call' = [call EXCEPT !.batch[k].status = "rejected",
                                  !.batchError = IF @ = Undefined THEN message ELSE @]
          /\ gatewayLog' = [gatewayLog EXCEPT !.rejected =
                                @ \cup {[query |-> call.batch[k].query, message |-> message]}]
    /\ UNCHANGED <<searchCache, gatewayPc, strayRequests, orderedResults>>
    /\ UNCHANGED <<runVars, supervisorVars, searchVars>>

\* the requests of the batch of the running call that are still pending
PendingOfBatch ==
    {[query |-> call.batch[k].query, key |-> KeyOf(call.batch[k].query),
      call |-> gatewayLog.calls, at |-> call.i + k] :
        k \in {j \in 1..Len(call.batch) : call.batch[j].status = "pending"}}

\* lines 212-234: the await of Promise.all is over: every request of the
\* batch was answered, or one failed.  The call goes on with the next batch
\* (after the delay when the batch succeeded), or returns.
BatchSettles ==
    /\ gatewayPc = "await batch"
    /\ LET failed == \E k \in 1..Len(call.batch) : call.batch[k].status = "rejected"
           done == \A k \in 1..Len(call.batch) : call.batch[k].status = "fulfilled"
           results == call.results \o
                         [k \in 1..Len(call.batch) |->
                             IF failed
                             THEN ErrorResponse(call.batch[k].query, call.batchError)
                             ELSE call.batch[k].result]
           more == call.i + batchSize < Len(call.uncachedQueries)
           next == BatchAt(call.uncachedQueries, call.i + batchSize)
       IN  /\ failed \/ done
           /\ strayRequests' = strayRequests \cup PendingOfBatch
           /\ IF ~more
              THEN /\ gatewayPc' = "returned"
                   /\ call' = [call EXCEPT !.results = results, !.batch = <<>>,
                                           !.batchError = Undefined]
                   /\ orderedResults' = Ordered(call.searchQueries, results)
                   /\ UNCHANGED gatewayLog
              ELSE IF failed
              THEN /\ gatewayPc' = "await batch"
                   /\ call' = [call EXCEPT !.results = results, !.i = @ + batchSize,
                                           !.batch = next, !.batchError = Undefined]
                   /\ gatewayLog' = [gatewayLog EXCEPT !.requested =
                            @ \o [k \in 1..Len(next) |-> KeyOf(next[k].query)]]
                   /\ UNCHANGED orderedResults
              ELSE /\ gatewayPc' = "delay"
                   /\ call' = [call EXCEPT !.results = results, !.batch = <<>>]
                   /\ UNCHANGED <<orderedResults, gatewayLog>>
    /\ UNCHANGED searchCache
    /\ UNCHANGED <<runVars, supervisorVars, searchVars>>

\* lines 218-220, 196-210: the delay between two batches is over and the next
\* batch is issued
DelayElapses ==
    /\ gatewayPc = "delay"
    /\ LET next == BatchAt(call.uncachedQueries, call.i + batchSize)
       IN  /\ call' = [call EXCEPT !.i = @ + batchSize, !.batch = next]
           /\ gatewayLog' = [gatewayLog EXCEPT
                    !.requested = @ \o [k \in 1..Len(next) |-> KeyOf(next[k].query)],
                    !.delays = @ + 1]
    /\ gatewayPc' = "await batch"
    /\ UNCHANGED <<searchCache, strayRequests, orderedResults>>
    /\ UNCHANGED <<runVars, supervisorVars, searchVars>>

\* a request whose batch has failed is answered: its then-callback still
\* stores the answer
StrayFulfils ==
    /\ \E r \in strayRequests :
       \E result \in ProviderAnswers(r.query) :
          /\ strayRequests' = strayRequests \ {r}
          /\ searchCache' = StoreInCache(searchCache, r.key, result)
          /\ gatewayLog' = [gatewayLog EXCEPT !.answered = @ \cup {r.key}]
    /\ UNCHANGED <<gatewayPc, call, orderedResults>>
    /\ UNCHANGED <<runVars, supervisorVars, searchVars>>

\* a request whose batch has failed fails too
StrayRejects ==
    /\ \E r \in strayRequests : strayRequests' = strayRequests \ {r}
    /\ UNCHANGED <<searchCache, gatewayPc, call, orderedResults, gatewayLog>>
    /\ UNCHANGED <<runVars, supervisorVars, searchVars>>

NextGateway ==
    \/ StartCall
    \/ RequestFulfils
    \/ RequestRejects
    \/ BatchSettles
    \/ DelayElapses
    \/ StrayFulfils
    \/ StrayRejects

SpecGateway == InitGateway /\ [][NextGateway]_vars

----------------------------------------------------------------------------
(* selectAndExecuteSearch (tools/utils.ts) with the two search functions   *)
(* it chooses from: tavilySearch, which awaits tavilySearchAsync above,    *)
(* removes duplicates, formats and has each source url validated, and      *)
(* duckduckgoSearch, which asks the provider query by query with retries   *)
(* and scrapes the pages found.  While duckduckgoSearch waits before a     *)
(* retry or before the next query, no request is out: search.waiting is    *)
(* TRUE until the timer fires and the request is sent.  The model follows  *)
(* the first call of the process.                                          *)

\* const maxRetries = 3
maxRetries == 3

\* options.max_results || 8
TavilySearchMaxResults == 8

\* the outcome of an expression that throws
Throws == "<throws>"

\* the names a caller may pass as searchApi
SearchApis == {"tavily", "duckduckgo", "bing"}

\* a provider that is used whatever the name
ProviderForDefaulting(searchApi) ==
    IF searchApi = "tavily" THEN "tavily" ELSE "duckduckgo"

\* lines 621, 639, 644: the branch selectAndExecuteSearch takes
ProviderFor(searchApi) ==
    IF searchApi = "tavily" THEN "tavily"
    ELSE IF searchApi = "duckduckgo" THEN "duckduckgo"
    ELSE Throws

UnsupportedApi(searchApi) ==
    "Unsupported search API: " \o searchApi
        \o ". Only 'tavily' and 'duckduckgo' are supported."

\* lines 506-516: the first result of each url, in the order met
RECURSIVE UniqueResults(_, _)
UniqueResults(unique, results) ==
    IF Len(results) = 0 THEN unique
    ELSE LET result == results[1]
             seen == {unique[i].url : i \in 1..Len(unique)}
         IN  UniqueResults(IF Truthy(result.url) /\ result.url \notin seen
                           THEN Append(unique, result) ELSE unique,
                           Tail(results))

\* '-'.repeat(80)
Dashes == "--------------------------------------------------------------------------------"

\* result.title || 'No Title'
TitleOf(result) == IF Truthy(result.title) THEN result.title ELSE "No Title"

\* lines 540-568: the block of one source (raw contents are shorter than
\* the 30000 characters displayed)
TavilyBlock(result, sourceCount, includeRawContent) ==
    "\n\n--- SOURCE " \o ToString(sourceCount) \o ": " \o TitleOf(result) \o " ---\n"
      \o "URL: " \o result.url \o "\n\n"
      \o (IF Truthy(result.content) THEN "SUMMARY:\n" \o result.content \o "\n\n" ELSE "")
      \o (IF includeRawContent /\ Truthy(result.raw_content)
          THEN "FULL CONTENT (up to 30000 chars):\n" \o result.raw_content
          ELSE IF ~Truthy(result.content)
          THEN "No content available for this source.\n"
          ELSE "")
      \o "\n\n" \o Dashes \o "\n"

RECURSIVE TavilyBlocks(_, _, _)
TavilyBlocks(unique, done, includeRawContent) ==
    IF done >= Len(unique) THEN ""
    ELSE TavilyBlock(unique[done + 1], done + 1, includeRawContent)
            \o TavilyBlocks(unique, done + 1, includeRawContent)

\* lines 521-526: `Query '${resp.query || 'Unknown'}': ${resp.error}` of each
\* response with an error
ErrorLines(responses, unknown) ==
    LET withError == SelectSeq(responses, LAMBDA resp : Truthy(resp.error))
    IN  [j \in 1..Len(withError) |->
            "Query '" \o (IF Truthy(withError[j].query) THEN withError[j].query ELSE unknown)
                \o "': " \o withError[j].error]

TavilyNoResults ==
    "No valid search results found from Tavily. Please try different search queries."

\* a tavilySearch that formats whatever it has
tavilySearchAlwaysFormats(searchApiResponses, includeRawContent) ==
    LET all == Concat([j \in 1..Len(searchApiResponses) |-> searchApiResponses[j].results])
        unique == UniqueResults(<<>>, all)
    IN  [formattedOutput |-> "Search results from Tavily: \n\n"
                                \o TavilyBlocks(unique, 0, includeRawContent),
         sources |-> [j \in 1..Len(unique) |-> Source(unique[j].url, TitleOf(unique[j]))]]

\* tavilySearch, from the responses of tavilySearchAsync on
tavilySearch(searchApiResponses, includeRawContent) ==
    LET all == Concat([j \in 1..Len(searchApiResponses) |-> searchApiResponses[j].results])
        unique == UniqueResults(<<>>, all)
        errors == ErrorLines(searchApiResponses, "Unknown")
    IN  IF Len(unique) = 0
        THEN IF Len(errors) > 0
             THEN [formattedOutput |->
                       "Tavily search encountered errors:\n" \o Join(errors, "\n"),
                   sources |-> <<>>]
             ELSE [formattedOutput |-> TavilyNoResults, sources |-> <<>>]
        ELSE [formattedOutput |-> "Search results from Tavily: \n\n"
                                     \o TavilyBlocks(unique, 0, includeRawContent),
              sources |-> [j \in 1..Len(unique) |->
                              Source(unique[j].url, TitleOf(unique[j]))]]

\* new URL(url).protocol of the urls the providers return; Throws when the
\* constructor throws
Protocol(url) ==
    CASE url \in {"https://a.example/1", "https://d.example/4"} -> "https:"
      [] url = "http://b.example/2" -> "http:"
      [] url = "ftp://c.example/3" -> "ftp:"
      [] OTHER -> Throws

\* an isValidUrl that accepts every url that parses
isValidUrlAnyScheme(url, headOk) ==
    IF Protocol(url) = Throws THEN FALSE ELSE headOk

\* isValidUrl; headOk: the HEAD request gets a status below 400 in time
isValidUrl(url, headOk) ==
    IF Protocol(url) = Throws THEN FALSE
    ELSE IF Protocol(url) # "http:" /\ Protocol(url) # "https:" THEN FALSE
    ELSE headOk

\* response.data.RelatedTopics of the DuckDuckGo API for each query: q1 and
\* q2 share one url; q2 has a topic without text; q3 finds nothing
RelatedTopics(query) ==
    CASE query = "q1" -> <<[Text |-> "t1", FirstURL |-> "https://a.example/1"],
                           [Text |-> "t2", FirstURL |-> "http://b.example/2"]>>
      [] query = "q2" -> <<[Text |-> "t2 again", FirstURL |-> "http://b.example/2"],
                           [Text |-> "", FirstURL |-> "https://d.example/4"]>>
      [] OTHER -> <<>>

\* lines 349-357, 363-371 (the score is not used afterwards)
DdgResults(ddgResults) ==
    [j \in 1..Len(ddgResults) |->
        Result(ddgResults[j].FirstURL, ddgResults[j].Text, ddgResults[j].Text,
               ddgResults[j].Text)]

\* error.message of a failed DuckDuckGo request
DdgFailureMessages == {"202 Ratelimit", "Network Error"}

\* lastError.message.includes('Ratelimit')
IncludesRatelimit(message) == message = "202 Ratelimit"

\* what axios.get(url) gives scrapePages
PageFetches ==
    {[ok |-> TRUE, contentType |-> "text/html", data |-> "<h1>Title</h1><p>text</p>"],
     [ok |-> FALSE, contentType |-> "", data |-> "timeout of 30000ms exceeded"]}

\* markdownify of the pages fetched
markdownify(html) ==
    IF html = "<h1>Title</h1><p>text</p>" THEN "# Title\n\ntext\n\n" ELSE html

\* lines 276-298
PageOf(fetch) ==
    IF ~fetch.ok THEN "Error fetching URL: " \o fetch.data
    ELSE IF fetch.contentType = "text/html" THEN markdownify(fetch.data)
    ELSE "Content type: " \o fetch.contentType \o " (not converted to markdown)"

RECURSIVE ScrapeBlocks(_, _, _, _)
ScrapeBlocks(titles, urls, pages, i) ==
    IF i >= Len(titles) THEN ""
    ELSE (IF i < Len(urls) /\ i < Len(pages)
          THEN "\n\n--- SOURCE " \o ToString(i + 1) \o ": " \o titles[i + 1] \o " ---\n"
                 \o "URL: " \o urls[i + 1] \o "\n\n"
                 \o "FULL CONTENT:\n " \o pages[i + 1]
                 \o "\n\n" \o Dashes \o "\n"
          ELSE "")
         \o ScrapeBlocks(titles, urls, pages, i + 1)

\* scrapePages, from the fetched pages on
scrapePages(titles, urls, fetches) ==
    "Search results: \n\n"
       \o ScrapeBlocks(titles, urls, [j \in 1..Len(fetches) |-> PageOf(fetches[j])], 0)

DdgNoResults ==
    "No valid search results found from DuckDuckGo. Please try different search queries."

DdgNothingToScrape ==
    "No valid search results found to scrape from DuckDuckGo. Please try different search queries or check for errors."

\* lines 442-474: what duckduckgoSearch returns when it has no url to scrape
duckduckgoNoUrls(searchDocsResponses) ==
    LET stops == {j \in 1..Len(searchDocsResponses) :
                     \/ Len(searchDocsResponses[j].results) > 0
                     \/ ~Truthy(searchDocsResponses[j].error)}
        allFailedOrEmpty == stops = {}
        errorsSummary == ErrorLines(searchDocsResponses, "")
    IN  IF allFailedOrEmpty /\ Len(searchDocsResponses) > 0
        THEN IF Len(errorsSummary) > 0
             THEN "DuckDuckGo search encountered errors:\n" \o Join(errorsSummary, "\n")
             ELSE DdgNoResults
        ELSE DdgNothingToScrape

\* the arguments of a call: a name, a list of different queries, no
\* parameters
SearchArguments ==
    {[searchApi |-> api, queryList |-> qs] :
        api \in SearchApis, qs \in DistinctSeqsUpTo(Queries, MaxQueries)}

InitSearch ==
    /\ RunIdle
    /\ SupervisorIdle
    /\ GatewayIdle
    /\ SearchIdle

\* lines 616-647: selectAndExecuteSearch is called and takes the branch of
\* the name: tavilySearch calls tavilySearchAsync (lines 489-497),
\* duckduckgoSearch sends the request of its first query (lines 417-425,
\* 360), any other name throws
SelectAndExecuteSearch ==
    /\ searchPc = "idle"
    /\ \E args \in SearchArguments :
          LET log == [calls |-> searchLog.calls + 1, ddgRequests |-> <<>>,
                      probes |-> <<>>, gatewayCallsAtStart |-> gatewayLog.calls]
          IN  CASE ProviderFor(args.searchApi) = "tavily" ->
                     /\ BeginCall(args.queryList, TavilySearchMaxResults, "general", TRUE)
                     /\ searchPc' = "tavily"
                     /\ search' = [searchApi |-> args.searchApi, queryList |-> args.queryList,
                                   includeRawContent |-> TRUE]
                     /\ searchLog' = log
                     /\ UNCHANGED searchOutput
                [] ProviderFor(args.searchApi) = "duckduckgo" ->
                     /\ search' = [searchApi |-> args.searchApi, queryList |-> args.queryList,
                                   i |-> 0, retryCount |-> 0, lastError |-> Null,
                                   waiting |-> FALSE,
                                   searchDocsResponses |-> <<>>,
                                   urls |-> <<>>, titles |-> <<>>]
                     /\ IF Len(args.queryList) = 0
                        THEN /\ searchPc' = "returned"
                             /\ searchOutput' = [formattedOutput |-> duckduckgoNoUrls(<<>>),
                                                 sources |-> <<>>]
                             /\ searchLog' = log
                        ELSE /\ searchPc' = "ddg request"
                             /\ searchLog' = [log EXCEPT !.ddgRequests =
                                   <<[query |-> args.queryList[1], retryCount |-> 0]>>]
                             /\ UNCHANGED searchOutput
                     /\ UNCHANGED gatewayVars
                [] OTHER ->
                     /\ searchPc' = "thrown"
                     /\ search' = [searchApi |-> args.searchApi, queryList |-> args.queryList]
                     /\ searchOutput' = UnsupportedApi(args.searchApi)
                     /\ searchLog' = log
                     /\ UNCHANGED gatewayVars
    /\ UNCHANGED <<runVars, supervisorVars>>

\* lines 499-571, 623-638: tavilySearchAsync has returned; tavilySearch
\* formats its responses and selectAndExecuteSearch starts on the sources
TavilySearchReturns ==
    /\ searchPc = "tavily"
    /\ gatewayPc = "returned"
    /\ LET result == tavilySearch(orderedResults, search.includeRawContent)
       IN  /\ search' = [searchApi |-> search.searchApi, queryList |-> search.queryList,
                         includeRawContent |-> search.includeRawContent,
                         result |-> result, validatedSources |-> <<>>, k |-> 0]
           /\ IF Len(result.sources) = 0
              THEN /\ searchPc' = "returned"
                   /\ searchOutput' = [formattedOutput |-> result.formattedOutput,
                                       sources |-> <<>>]
              ELSE /\ searchPc' = "validate"
                   /\ UNCHANGED searchOutput
    /\ UNCHANGED searchLog
    /\ UNCHANGED <<runVars, supervisorVars, gatewayVars>>

\* lines 627-638, 579-605: isValidUrl settles for the next source; after the
\* last source selectAndExecuteSearch returns
ValidateSource ==
    /\ searchPc = "validate"
    /\ LET source == search.result.sources[search.k + 1]
       IN  \E headOk \in BOOLEAN :
              LET validated == IF isValidUrl(source.url, headOk)
                               THEN Append(search.validatedSources, source)
                               ELSE search.validatedSources
              IN  /\ search' = [search EXCEPT !.validatedSources = validated, !.k = @ + 1]
                  /\ searchLog' = [searchLog EXCEPT !.probes =
                        IF Protocol(source.url) \in {"http:", "https:"}
                        THEN Append(@, [url |-> source.url, ok |-> headOk]) ELSE @]
                  /\ IF search.k + 1 = Len(search.result.sources)
                     THEN /\ searchPc' = "returned"
                          /\ searchOutput' = [formattedOutput |-> search.result.formattedOutput,
                                              sources |-> validated]
                     ELSE UNCHANGED <<searchPc, searchOutput>>
    /\ UNCHANGED <<runVars, supervisorVars, gatewayVars>>

\* lines 426-474: duckduckgoSearch has the response of a query: it keeps the
\* urls and titles, and waits before the next query (lines 419-422), goes on
\* with the scraping, or returns
DdgResponse(response) ==
    LET responses == Append(search.searchDocsResponses, response)
        \* lines 429-436: the results with a url and a title
        found == SelectSeq(response.results,
                           LAMBDA res : Truthy(res.url) /\ Truthy(res.title))
        urls == search.urls \o [j \in 1..Len(found) |-> found[j].url]
        titles == search.titles \o [j \in 1..Len(found) |-> found[j].title]
        more == search.i + 1 < Len(search.queryList)
        locals == [search EXCEPT !.searchDocsResponses = responses, !.urls = urls,
                                 !.titles = titles, !.i = @ + 1, !.retryCount = 0,
                                 !.lastError = Null, !.waiting = more]
    IN  /\ search' = locals
        /\ IF more
           THEN /\ searchPc' = "ddg request"
                /\ UNCHANGED <<searchOutput, searchLog>>
           ELSE IF Len(urls) > 0
           THEN /\ searchPc' = "scrape"
                /\ UNCHANGED <<searchOutput, searchLog>>
           ELSE /\ searchPc' = "returned"
                /\ searchOutput' = [formattedOutput |-> duckduckgoNoUrls(responses),
                                    sources |-> <<>>]
                /\ UNCHANGED searchLog

\* lines 336-346, 419-425: the timer of the wait before a request fires:
\* the request of the query is sent, for the first time or again
DdgDelayElapses ==
    /\ searchPc = "ddg request"
    /\ search.waiting
    /\ search' = [search EXCEPT !.waiting = FALSE]
    /\ searchLog' = [searchLog EXCEPT !.ddgRequests =
          Append(@, [query |-> search.queryList[search.i + 1],
                     retryCount |-> search.retryCount])]
    /\ UNCHANGED <<searchPc, searchOutput>>
    /\ UNCHANGED <<runVars, supervisorVars, gatewayVars>>

\* lines 346-381: the provider answers the request of the query
DdgRequestSucceeds ==
    /\ searchPc = "ddg request"
    /\ ~search.waiting
    /\ LET query == search.queryList[search.i + 1]
       IN  DdgResponse([query |-> query, results |-> DdgResults(RelatedTopics(query)),
                        error |-> Undefined])
    /\ UNCHANGED <<runVars, supervisorVars, gatewayVars>>

\* lines 331, 389: whether the loop goes round again after a failure that
\* left the count at retryCount
Retries(message, retryCount) ==
    /\ ~(~IncludesRatelimit(message) /\ retryCount >= 1)
    /\ retryCount <= maxRetries

\* lines 382-406: the request of the query fails: it is sent again after a
\* wait (lines 336-341), or the query gets an error response
DdgRequestFails ==
    /\ searchPc = "ddg request"
    /\ ~search.waiting
    /\ \E message \in DdgFailureMessages :
          LET query == search.queryList[search.i + 1]
              retryCount == search.retryCount + 1
          IN  IF Retries(message, retryCount)
              THEN /\ search' = [search EXCEPT !.retryCount = retryCount,
                                               !.lastError = message,
                                               !.waiting = TRUE]
                   /\ UNCHANGED <<searchPc, searchOutput, searchLog>>
              ELSE DdgResponse(ErrorResponse(query, message))
    /\ UNCHANGED <<runVars, supervisorVars, gatewayVars>>

\* lines 440-441, 643: the pages are fetched, scrapePages formats them and
\* selectAndExecuteSearch returns the text without sources
ScrapePages ==
    /\ searchPc = "scrape"
    /\ \E fetches \in [1..Len(search.urls) -> PageFetches] :
          searchOutput' = [formattedOutput |->
                              scrapePages(search.titles, search.urls, fetches),
                           sources |-> <<>>]
    /\ searchPc' = "returned"
    /\ UNCHANGED <<search, searchLog>>
    /\ UNCHANGED <<runVars, supervisorVars, gatewayVars>>

NextSearch ==
    \/ SelectAndExecuteSearch
    \/ RequestFulfils
    \/ RequestRejects
    \/ BatchSettles
    \/ DelayElapses
    \/ StrayFulfils
    \/ StrayRejects
    \/ TavilySearchReturns
    \/ ValidateSource
    \/ DdgDelayElapses
    \/ DdgRequestSucceeds
    \/ DdgRequestFails
    \/ ScrapePages

SpecSearch == InitSearch /\ [][NextSearch]_vars

----------------------------------------------------------------------------
(* Properties of a run of the report graph (Spec) *)

Names(h, refs) == {h[refs[j]].name : j \in 1..Len(refs)}

Completed(state) == Field(state, "completed_sections", <<>>)

\* how often stage node ran to its end on the section called name
Runs(node, name) ==
    Cardinality({i \in 1..Len(trace) :
                    trace[i].node = node /\ trace[i].section = name /\ ~trace[i].threw})

\* how often the section called name was finished by a writing stage
Finished(name) ==
    Cardinality({i \in 1..Len(trace) :
                    /\ trace[i].section = name
                    /\ ~trace[i].threw
                    /\ \/ trace[i].node = "write-final-sections"
                       \/ trace[i].node = "write-section" /\ trace[i].goto = END})

PlanNames == {heap[r].name : r \in 1..Len(heap)}

\* C1: search-web runs at most max_search_depth times for each section of
\* the plan over the whole run, whatever the grades and the configured depth.
C1_SearchPassesWithinDepth ==
    \A name \in PlanNames : Runs("search-web", name) <= max_search_depth

\* C1, for a depth of at least 1 only: violated as well, by a section that is
\* researched a second time after completed_sections lost it
C1_SearchPassesWithinPositiveDepth ==
    max_search_depth >= 1 => C1_SearchPassesWithinDepth

\* C2: a stage's result never removes a section from completed_sections
\* (finished sections are appended), and route-tasks never selects a section
\* whose name has been finished before.
C2_CompletedSectionsKept ==
    [][/\ \A r \in {Completed(currentState)[j] : j \in 1..Len(Completed(currentState))} :
             \E k \in 1..Len(Completed(currentState')) : Completed(currentState')[k] = r
       /\ (/\ Len(trace') = Len(trace) + 1
           /\ trace'[Len(trace')].node = "route-tasks"
           /\ trace'[Len(trace')].goto # "compile-final-report")
          => Finished(heap[lastResult'.update["section"]].name) = 0]_vars

IsIntroBodyConclusion ==
    /\ Has(currentState, "sections")
    /\ Len(currentState["sections"]) = 3
    /\ ~heap[currentState["sections"][1]].research
    /\ heap[currentState["sections"][2]].research
    /\ ~heap[currentState["sections"][3]].research

AllGradesPass ==
    \A i \in 1..Len(trace) : trace[i].node = "write-section" => trace[i].grade = "pass"

\* C3: a run on a plan intro (no research), body (research), conclusion (no
\* research) whose grades are all 'pass' ends, within the step bound, with
\* compile-final-report executed, each section processed exactly once and
\* final_report holding the three contents in the order of the plan.
C3_ThreeSectionRunCompiles ==
    (runStatus = "returned" /\ IsIntroBodyConclusion /\ AllGradesPass)
        => /\ \E i \in 1..Len(trace) : trace[i].node = "compile-final-report"
           /\ \A name \in PlanNames : Finished(name) = 1
           /\ Has(currentState, "final_report")
           /\ currentState["final_report"] =
                 Join([i \in 1..3 |-> heap[currentState["sections"][i]].content], "\n\n")

\* C4: completed_sections never holds two entries with the same name.
C4_NoDuplicateCompleted ==
    LET done == Completed(currentState)
    IN  \A i, j \in 1..Len(done) :
            i # j => heap[done[i]].name # heap[done[j]].name

\* a section has been finished for the second time in the run
C4_Witness ==
    /\ Len(Completed(currentState)) >= 1
    /\ \E name \in PlanNames : Finished(name) >= 2

\* generate-report-plan returned a plan without sections
PlanIsEmpty ==
    /\ Len(trace) >= 1
    /\ trace[1].node = "generate-report-plan"
    /\ ~trace[1].threw
    /\ currentState["sections"] = <<>>

SectionStages == {"generate-queries", "search-web", "write-section", "write-final-sections"}

\* C12: when the plan has no sections, the first route-tasks pass routes to
\* compile-final-report, no querying, searching or writing stage ever runs,
\* and the run ends by returning a state whose final_report is the empty
\* text: an empty body and no references.
C12_EmptyPlanCompilesEmpty ==
    PlanIsEmpty =>
        /\ \A i \in 1..Len(trace) : trace[i].node \notin SectionStages
        /\ \A i \in 1..Len(trace) :
              trace[i].node = "route-tasks" =>
                 (i = 3 /\ trace[i].goto = "compile-final-report")
        /\ Len(trace) <= 4
        /\ runStatus # "thrown"
        /\ (Len(trace) = 4 =>
              /\ trace[4].node = "compile-final-report"
              /\ runStatus \in {"returned", "resolved", "rejected"}
              /\ Has(currentState, "final_report")
              /\ currentState["final_report"] = "")

\* the run on an empty plan has returned
C12_Witness ==
    /\ PlanIsEmpty
    /\ runStatus = "returned"
    /\ Len(trace) = 4
    /\ currentState["final_report"] = ""

\* C13: generateReport returns a string only when run returned from
\* compile-final-report with every section of the plan completed, and the
\* string is that stage's final_report; it returns none when run stopped at
\* the step bound, when a stage threw or when the final state has no
\* final_report: then it throws.
C13_ReportOrError ==
    /\ runStatus = "resolved" =>
          /\ lastResult.kind = "report"
          /\ Has(currentState, "final_report")
          /\ lastResult.text = currentState["final_report"]
          /\ maxSteps >= 0
          /\ \A i \in 1..Len(trace) : ~trace[i].threw
          /\ Len(trace) >= 1
          /\ trace[Len(trace)].node = "compile-final-report"
          /\ \A i \in 1..Len(currentState["sections"]) :
                Finished(heap[currentState["sections"][i]].name) >= 1
    /\ runStatus = "rejected" => lastResult.kind = "error"

\* generateReport returned the report of a plan of one researched section
C13_Witness ==
    /\ runStatus = "resolved"
    /\ Len(currentState["sections"]) = 1
    /\ Runs("search-web", heap[currentState["sections"][1]].name) >= 1
    /\ lastResult.text # ""

\* generateReport threw after run had returned at the step bound
C13_WitnessStepBound ==
    /\ runStatus = "rejected"
    /\ maxSteps < 0

\* the step taken is write-section running to its end
WriteSectionStep ==
    /\ Len(trace') = Len(trace) + 1
    /\ trace'[Len(trace')].node = "write-section"
    /\ ~trace'[Len(trace')].threw

\* C15: writeSection returns {goto: END, update: {completed_sections:
\* [section]}} exactly when the grade is 'pass' or search_iterations >=
\* max_search_depth, and otherwise {goto: search-web, update: {search_queries:
\* follow_up_queries, section}}.
C15_WriteSectionDirective ==
    [][WriteSectionStep =>
        LET grade == trace'[Len(trace')].grade
            section == currentState["section"]
        IN  IF grade = "pass" \/ currentState["search_iterations"] >= max_search_depth
            THEN lastResult' = [kind |-> "command", goto |-> END,
                                update |-> [completed_sections |-> <<section>>]]
            ELSE /\ lastResult'.kind = "command"
                 /\ lastResult'.goto = "search-web"
                 /\ DOMAIN lastResult'.update = {"search_queries", "section"}
                 /\ lastResult'.update["section"] = section
                 /\ lastResult'.update["search_queries"] \in FollowUpQueries]_vars

\* a section graded 'fail' with search_iterations equal to a positive
\* max_search_depth was ended
C15_Witness ==
    /\ Len(trace) >= 1
    /\ trace[Len(trace)].node = "write-section"
    /\ trace[Len(trace)].grade = "fail"
    /\ trace[Len(trace)].goto = END
    /\ max_search_depth >= 1
    /\ currentState["search_iterations"] = max_search_depth

\* C16: after write-section grades a section 'fail' below the depth bound
\* the next stage executed is search-web, entered with the grader's
\* follow-up queries as search_queries; generate-queries runs only right
\* after the route-tasks pass that selected the section, once, and never on
\* a retry.
C16_RetryFromSearch ==
    /\ \A i \in 1..Len(trace) :
          (trace[i].node = "write-section" /\ ~trace[i].threw /\ trace[i].goto # END) =>
             /\ trace[i].grade = "fail"
             /\ i < Len(trace) => trace[i + 1].node = "search-web"
             /\ (i = Len(trace) /\ runStatus = "running") =>
                   /\ currentNodeName = "search-web"
                   /\ currentState["search_queries"] \in FollowUpQueries
    /\ \A i \in 1..Len(trace) :
          trace[i].node = "generate-queries" =>
             /\ i > 1
             /\ trace[i - 1].node = "route-tasks"
             /\ trace[i - 1].goto = "generate-queries"
    /\ \A i \in 1..(Len(trace) - 1) :
          (trace[i].node = "route-tasks" /\ trace[i].goto = "generate-queries") =>
             trace[i + 1].node = "generate-queries"

\* a failed section was searched again: two search passes, one query
\* generation
C16_Witness ==
    \E i \in 1..(Len(trace) - 1) :
        /\ trace[i].node = "write-section"
        /\ trace[i].grade = "fail"
        /\ trace[i].goto = "search-web"
        /\ trace[i + 1].node = "search-web"
        /\ ~trace[i + 1].threw
        /\ i >= 3
        /\ trace[i - 1].node = "search-web"
        /\ trace[i - 2].node = "generate-queries"

----------------------------------------------------------------------------
(* Properties of MastraGraph.run (SpecEngine) *)

\* C5: run invokes at most 20 stages, and when the step bound is exhausted
\* it fails with an error instead of returning a state.
C5_StepBoundIsFatal ==
    /\ maxSteps \in -1..MaxStepsInit
    /\ (maxSteps < 0 => runStatus = "thrown")

\* the step taken is one stage of the graph returning a Command
CommandStep ==
    /\ runStatus = "running"
    /\ maxSteps > 0
    /\ maxSteps' = maxSteps - 1
    /\ currentNodeName \in DOMAIN wf.nodes
    /\ lastResult'.kind = "command"

\* C6: a Command's update is merged first; the next stage is the target of
\* the first conditional edge of the current stage, in registration order,
\* whose condition holds on (merged state, command); the command's goto is
\* used only when no conditional edge of the current stage matches.
C6_ConditionalEdgesFirst ==
    [][CommandStep =>
        LET command == lastResult'
            merged == [k \in (DOMAIN currentState) \cup (DOMAIN command.update) |->
                          IF k \in DOMAIN command.update
                          THEN command.update[k] ELSE currentState[k]]
            links == IF currentNodeName \in DOMAIN wf.conditionalEdges
                     THEN wf.conditionalEdges[currentNodeName] ELSE <<>>
            holds(i) == EvalCondition(links[i].condition, merged, command)
            firsts == {i \in 1..Len(links) :
                          holds(i) /\ \A j \in 1..(i - 1) : ~holds(j)}
        IN  /\ currentState' = merged
            /\ \A i \in firsts :
                  runStatus' = "running" /\ currentNodeName' = links[i].to
            /\ (firsts = {} /\ command.goto \in DOMAIN wf.nodes)
                  => (runStatus' = "running" /\ currentNodeName' = command.goto)
            /\ (runStatus' = "running" /\ currentNodeName' = command.goto
                     /\ command.goto \notin {links[i].to : i \in 1..Len(links)})
                  => firsts = {}]_vars

\* stage a returned a Command whose update turned the flag on and whose goto
\* is "a": the first and the second conditional edge of a both hold, and the
\* run went on at the first one's target
C6_Witness ==
    /\ runStatus = "running"
    /\ Len(trace) = 1
    /\ trace[1].node = "a"
    /\ lastResult = Command("a", [flag |-> "on"])
    /\ currentNodeName = "b"

\* C7: run fails with an error, invoking no further stage and returning no
\* state, when no entry point is set or when the resolved next stage is not
\* a registered node.
C7_UnregisteredIsFatal ==
    /\ (wf.entryPoint = Null /\ runStatus # "idle")
          => (runStatus = "thrown" /\ maxSteps = MaxStepsInit)
    /\ (runStatus # "idle" /\ currentNodeName \notin DOMAIN wf.nodes)
          => runStatus # "returned"

----------------------------------------------------------------------------
(* Properties of routeTasks (SpecRoute) *)

Routed == runStatus = "applied"

ToCompile == lastResult.goto = "compile-final-report"

\* C8: routeTasks directs to compile-final-report whenever completed_sections
\* has as many entries as sections, whatever those entries are.
C8_EqualCountsCompile ==
    (Routed /\ Len(Completed(currentState)) = Len(currentState["sections"]))
        => ToCompile

\* as many completed entries as sections, yet a section whose name no
\* completed entry has
C8_Witness ==
    /\ Routed
    /\ Len(currentState["sections"]) = 2
    /\ Len(Completed(currentState)) = 2
    /\ Names(heap, currentState["sections"]) \cap Names(heap, Completed(currentState)) = {}
    /\ ToCompile

\* C9: when routeTasks does not route to compilation, the section it selects
\* is the first one, in the order of sections, whose name does not occur in
\* completed_sections.
C9_FirstUncompletedSelected ==
    (Routed /\ ~ToCompile)
        => LET secs == currentState["sections"]
               doneNames == Names(heap, Completed(currentState))
           IN  \E i \in 1..Len(secs) :
                  /\ lastResult.update["section"] = secs[i]
                  /\ heap[secs[i]].name \notin doneNames
                  /\ \A j \in 1..(i - 1) : heap[secs[j]].name \in doneNames

\* an unfinished research section before an unfinished non-research one,
\* with another section completed: the research section is selected
C9_Witness ==
    /\ Routed
    /\ currentState["sections"] = <<3, 2>>
    /\ Completed(currentState) = <<9>>
    /\ lastResult.goto = "generate-queries"
    /\ lastResult.update["section"] = 3

\* C10: for the selected section, research leads to generate-queries with
\* section set and search_iterations 0, no research to write-final-sections
\* with section set; both updates carry sections and completed_sections of
\* the input state.
C10_DirectiveForSelected ==
    (Routed /\ ~ToCompile)
        => LET u == lastResult.update
           IN  /\ u["section"] \in {currentState["sections"][i] :
                                       i \in 1..Len(currentState["sections"])}
               /\ IF heap[u["section"]].research
                  THEN lastResult.goto = "generate-queries" /\ u["search_iterations"] = 0
                  ELSE lastResult.goto = "write-final-sections"
               /\ u["sections"] = currentState["sections"]
               /\ u["completed_sections"] = currentState["completed_sections"]

\* a non-research section is routed while another section is completed
C10_Witness ==
    /\ Routed
    /\ lastResult.goto = "write-final-sections"
    /\ Len(Completed(currentState)) = 1
    /\ ~heap[lastResult.update["section"]].research

----------------------------------------------------------------------------
(* Properties of compileFinalReport (SpecCompile) *)

Compiled == runStatus \in {"compiled", "compiled twice"}

\* C17: compileFinalReport applied a second time to the state it was applied
\* to yields the same final_report text as the first application.
C17_CompileIdempotent ==
    [][(runStatus = "compiled" /\ runStatus' = "compiled twice")
          => lastResult'.update["final_report"] = lastResult.update["final_report"]]_vars

\* compiled twice, where the first application changed a section's content
\* and the report has a body and references
C17_Witness ==
    /\ runStatus = "compiled twice"
    /\ currentState["sections"] = <<1, 2>>
    /\ currentState["completed_sections"] = <<7, 3>>
    /\ heap # CompileHeap
    /\ lastResult.update["final_report"] # ""

\* the sources of the sections, in the order of sections and, within a
\* section, of its list
SourcesInOrder ==
    Concat([i \in 1..Len(currentState["sections"]) |->
               heap[currentState["sections"][i]].sources])

\* the numbered lines of the sources of flat, from the i-th on, that repeat
\* no url of an earlier source; n lines were numbered before
RECURSIVE FirstEncounterLines(_, _, _)
FirstEncounterLines(flat, i, n) ==
    IF i > Len(flat) THEN ""
    ELSE IF \E j \in 1..(i - 1) : flat[j].url = flat[i].url
    THEN FirstEncounterLines(flat, i + 1, n)
    ELSE ToString(n + 1) \o ". [" \o flat[i].title \o "](" \o flat[i].url \o ")\n"
            \o FirstEncounterLines(flat, i + 1, n + 1)

\* the body of the report: the contents the sections have after compilation
BodyText ==
    Join([i \in 1..Len(currentState["sections"]) |->
             heap[currentState["sections"][i]].content], "\n\n")

\* C18: the references of the report name each url of a source of any section
\* once: the sources in the order of sections and of each section's list,
\* without those whose url an earlier source has; they follow the body under
\* the heading, and without any source the report is the body alone.
C18_BibliographyFirstEncounter ==
    Compiled =>
        lastResult.update["final_report"] =
            IF Len(SourcesInOrder) = 0
            THEN BodyText
            ELSE BodyText \o BibliographyHeading
                    \o FirstEncounterLines(SourcesInOrder, 1, 0)

\* two sections share a url under different titles, and the second has a url
\* of its own
C18_Witness ==
    /\ runStatus = "compiled"
    /\ currentState["sections"] = <<1, 2>>
    /\ lastResult.update["final_report"] =
          BodyText \o BibliographyHeading
              \o "1. [t1](http://u1)\n2. [t2](http://u2)\n3. [t3](http://u3)\n"

\* the content the claim gives the section ref: that of the completed entry
\* of its name, and its prior content when there is none
MergedByName(ref) ==
    LET done == currentState["completed_sections"]
        hits == {j \in 1..Len(done) : CompileHeap[done[j]].name = CompileHeap[ref].name}
    IN  IF hits = {} THEN CompileHeap[ref].content
        ELSE CompileHeap[done[CHOOSE j \in hits : TRUE]].content

CompletedNamesDistinct ==
    \A i, j \in 1..Len(currentState["completed_sections"]) :
        i # j => CompileHeap[currentState["completed_sections"][i]].name
                    # CompileHeap[currentState["completed_sections"][j]].name

\* C19: the body lists the section contents in the order of sections,
\* whatever the order of completed_sections: each section has the content of
\* the completed entry of its name, and its prior content when no completed
\* entry has its name.
C19_BodyInSectionOrder ==
    (runStatus = "compiled" /\ CompletedNamesDistinct) =>
        /\ \A i \in 1..Len(currentState["sections"]) :
              heap[currentState["sections"][i]].content
                  = MergedByName(currentState["sections"][i])
        /\ lastResult.update["final_report"] =
              Join([i \in 1..Len(currentState["sections"]) |->
                       MergedByName(currentState["sections"][i])], "\n\n")
                 \o (IF Len(SourcesInOrder) = 0 THEN ""
                     ELSE BibliographyHeading \o FirstEncounterLines(SourcesInOrder, 1, 0))

\* C19 for names that are no property of Object.prototype and completed
\* entries whose content is not empty: holds
C19_BodyInSectionOrderOrdinary ==
    (/\ runStatus = "compiled"
     /\ CompletedNamesDistinct
     /\ \A i \in 1..Len(currentState["sections"]) :
           CompileHeap[currentState["sections"][i]].name \notin ObjectPrototypeFunctions
     /\ \A j \in 1..Len(currentState["completed_sections"]) :
           CompileHeap[currentState["completed_sections"][j]].content # "")
        => \A i \in 1..Len(currentState["sections"]) :
              heap[currentState["sections"][i]].content
                  = MergedByName(currentState["sections"][i])

----------------------------------------------------------------------------
(* Properties of runSupervisorWorkflow (SpecSupervisor) *)

\* the research of the section of that log entry failed: the researcher
\* threw, or the tool call gave no completed section
ResearchFailed(entry) ==
    /\ entry.tool = "invoke-researcher-agent"
    /\ entry.outcome \in {"errored", "no output"}

\* C14: when the research of a research-required section fails (the
\* researcher throws or no completed section comes back), the workflow does
\* not return a report: it ends with an error.
C14_FailedResearchIsFatal ==
    supervisorPc = "returned" =>
        \A i \in 1..Len(toolLog) : ~ResearchFailed(toolLog[i])

----------------------------------------------------------------------------
(* Properties of tavilySearchAsync (SpecGateway) *)

\* the cache keys of the queries of the running (or last) call
KeysOfCall == {KeyOf(call.searchQueries[j]) : j \in 1..Len(call.searchQueries)}

Requested == {gatewayLog.requested[j] : j \in 1..Len(gatewayLog.requested)}

\* C20: a query that an earlier call of the process contained with the same
\* maxResults, topic and includeRawContent is answered from the cache: the
\* provider gets no request for it in the later call.
C20_SecondCallFromCache ==
    gatewayLog.calls >= 2 =>
        \A key \in KeysOfCall \cap gatewayLog.containedAtStart : key \notin Requested

\* C20, amended: a query for which the provider had answered a request with
\* the same maxResults, topic and includeRawContent before the call started
\* is answered from the cache: the provider gets no request for it in the
\* call, and the call returns for it the response the cache held when the
\* call started.
C20_AnsweredQueryFromCache ==
    gatewayLog.calls >= 1 =>
        \A j \in 1..Len(call.searchQueries) :
            LET key == KeyOf(call.searchQueries[j])
            IN  key \in gatewayLog.answeredAtStart =>
                   /\ key \notin Requested
                   /\ key \in DOMAIN searchCache
                   /\ gatewayPc = "returned" =>
                         \E n \in 1..Len(orderedResults) :
                            orderedResults[n] = gatewayLog.cacheAtStart[key]

\* the second call has returned: q1 was answered in the first call and came
\* from the cache, q2 was new and went to the provider
C20_Witness ==
    /\ gatewayLog.calls = 2
    /\ gatewayPc = "returned"
    /\ call.searchQueries = <<"q1", "q2">>
    /\ KeyOf("q1") \in gatewayLog.answeredAtStart
    /\ KeyOf("q1") \in gatewayLog.containedAtStart
    /\ gatewayLog.requested = <<KeyOf("q2")>>
    /\ Len(orderedResults) = 2

----------------------------------------------------------------------------
(* Failures, retries and batches of tavilySearchAsync (SpecGateway) *)

\* the queries of the running call whose provider request failed
RejectedQueries == {r.query : r \in gatewayLog.rejected}

\* the response the call returned for a query
ReturnedFor(query) ==
    orderedResults[Min({n \in 1..Len(orderedResults) : orderedResults[n].query = query})]

\* C21: when the call has returned, a query whose provider request was
\* answered has the provider's answer in the returned responses and no
\* error tag; only a query whose request failed has an error-tagged empty
\* result.
C21_PartialFailureKeepsSuccesses ==
    gatewayPc = "returned" =>
        \A q \in gatewayLog.fulfilled \ RejectedQueries :
            /\ ReturnedFor(q) \in ProviderAnswers(q)
            /\ ReturnedFor(q).error = Undefined

\* how many provider requests the running call made for a key
RequestsFor(key) ==
    Cardinality({j \in 1..Len(gatewayLog.requested) : gatewayLog.requested[j] = key})

\* C22: when the call has returned, a query whose provider request failed on
\* a rate limit and that ended with an error-tagged result was retried until
\* the attempts were exhausted: the provider got maxRetries + 1 requests
\* for it.
C22_RateLimitIsRetried ==
    gatewayPc = "returned" =>
        \A r \in gatewayLog.rejected :
            (r.message = "Ratelimit exceeded" /\ ReturnedFor(r.query).error # Undefined)
                => RequestsFor(KeyOf(r.query)) = maxRetries + 1

\* the requests duckduckgoSearch made for a query
DdgRequestsFor(query) ==
    {j \in 1..Len(searchLog.ddgRequests) : searchLog.ddgRequests[j].query = query}

\* C22, the DuckDuckGo part: a query gets at most maxRetries + 1 requests,
\* and when it ended with an error that is no rate limit the failed request
\* was its last.
C22_DuckDuckGoRetries ==
    (searchPc # "idle" /\ ProviderFor(search.searchApi) = "duckduckgo") =>
        /\ \A q \in Queries : Cardinality(DdgRequestsFor(q)) <= maxRetries + 1
        /\ \A j \in 1..Len(search.searchDocsResponses) :
              LET resp == search.searchDocsResponses[j]
              IN  /\ resp.query = search.queryList[j]
                  /\ Truthy(resp.error) =>
                        /\ resp.results = <<>>
                        /\ IncludesRatelimit(resp.error) =>
                              Cardinality(DdgRequestsFor(resp.query)) = maxRetries + 1

\* the provider requests in flight
InFlight == Cardinality(PendingOfBatch) + Cardinality(strayRequests)

\* the running call issues its next batch
IssuesNextBatch ==
    /\ gatewayPc \in {"await batch", "delay"}
    /\ gatewayPc' = "await batch"
    /\ call'.i > call.i

\* C23: a batch after the first is issued only when the delay that follows
\* the batch before it is over and no request is in flight any more, and at
\* most batchSize requests are in flight.
C23_BatchesRunOneAtATime ==
    [][/\ IssuesNextBatch => (gatewayPc = "delay" /\ InFlight = 0)
       /\ InFlight' <= batchSize]_vars

----------------------------------------------------------------------------
(* selectAndExecuteSearch and the two search functions (SpecSearch) *)

Distinct(list) == \A j, k \in 1..Len(list) : j # k => list[j] # list[k]

\* the provider selectAndExecuteSearch has used in the call that returned
ReturnedFrom(provider) ==
    searchPc = "returned" /\ ProviderFor(search.searchApi) = provider

\* the urls the formatted output lists, one SOURCE block each: the sources
\* of tavilySearch, the urls duckduckgoSearch had scraped
ShownUrls ==
    IF ProviderFor(search.searchApi) = "tavily"
    THEN [j \in 1..Len(search.result.sources) |-> search.result.sources[j].url]
    ELSE search.urls

\* the results the provider gave to the queries of the call, in query order
ResultsInQueryOrder ==
    Concat([j \in 1..Len(orderedResults) |-> orderedResults[j].results])

\* the title tavilySearch shows for a result
ShownTitle(result) == IF result.title = "" THEN "No Title" ELSE result.title

\* C24, the tavily part: the formatted output and the sources list each url
\* once, under the title of its first result in query order.
C24_TavilyUrlsOnce ==
    ReturnedFrom("tavily") =>
        /\ Distinct(ShownUrls)
        /\ \A j \in 1..Len(search.result.sources) :
              LET first == Min({n \in 1..Len(ResultsInQueryOrder) :
                                   ResultsInQueryOrder[n].url = search.result.sources[j].url})
              IN  search.result.sources[j].title = ShownTitle(ResultsInQueryOrder[first])

\* C24: when the call has returned, whichever provider was used, no url is
\* listed twice in the formatted output or in the returned sources.
C24_UrlsOnce ==
    searchPc = "returned" =>
        /\ Distinct(ShownUrls)
        /\ Distinct([j \in 1..Len(searchOutput.sources) |-> searchOutput.sources[j].url])

\* C25: a call with a name other than 'tavily' and 'duckduckgo' throws the
\* error that names it and sends no request to either provider; a call with
\* a supported name does not throw, sends its requests to that provider and
\* none to the other.
C25_ProviderByName ==
    searchPc # "idle" =>
        LET tavilyCalls == gatewayLog.calls - searchLog.gatewayCallsAtStart
        IN  CASE search.searchApi = "tavily" ->
                   /\ searchPc # "thrown"
                   /\ tavilyCalls = 1
                   /\ call.searchQueries = search.queryList
                   /\ searchLog.ddgRequests = <<>>
              [] search.searchApi = "duckduckgo" ->
                   /\ searchPc # "thrown"
                   /\ tavilyCalls = 0 /\ gatewayLog.requested = <<>>
                   /\ Len(search.queryList) > 0 => Len(searchLog.ddgRequests) > 0
              [] OTHER ->
                   /\ searchPc = "thrown"
                   /\ searchOutput = UnsupportedApi(search.searchApi)
                   /\ tavilyCalls = 0 /\ gatewayLog.requested = <<>>
                   /\ searchLog.ddgRequests = <<>>

\* a call with the name 'bing' has thrown
C25_Witness ==
    /\ searchPc = "thrown"
    /\ search.searchApi = "bing"
    /\ search.queryList = <<"q1", "q2">>

\* the probe of the url that succeeded, when there is one
ProbeOk(url) == [url |-> url, ok |-> TRUE] \in {searchLog.probes[j] : j \in 1..Len(searchLog.probes)}

\* C26: every returned source has an http or https url whose probe
\* succeeded; the returned sources are the sources tavilySearch found, in
\* their order, without those whose url fails the scheme check or the probe;
\* and only an unsupported name makes the call throw.
C26_ValidatedSources ==
    /\ searchPc = "thrown" => ProviderFor(search.searchApi) = Throws
    /\ searchPc = "returned" =>
          \A j \in 1..Len(searchOutput.sources) :
              /\ Protocol(searchOutput.sources[j].url) \in {"http:", "https:"}
              /\ ProbeOk(searchOutput.sources[j].url)
    /\ ReturnedFrom("tavily") =>
          searchOutput.sources =
              SelectSeq(search.result.sources,
                        LAMBDA source : /\ Protocol(source.url) \in {"http:", "https:"}
                                        /\ ProbeOk(source.url))

\* the call has returned two sources of four: one was dropped for its
\* scheme, one for its failed probe
C26_Witness ==
    /\ ReturnedFrom("tavily")
    /\ Len(search.result.sources) = 4
    /\ \E j \in 1..4 : search.result.sources[j].url = "ftp://c.example/3"
    /\ [url |-> "http://b.example/2", ok |-> FALSE]
          \in {searchLog.probes[j] : j \in 1..Len(searchLog.probes)}
    /\ Len(searchOutput.sources) = 2

\* every query of the call ended with a failed provider request
AllQueriesFailed ==
    /\ searchPc \in {"returned", "thrown"}
    /\ ProviderFor(search.searchApi) # Throws
    /\ Len(search.queryList) > 0
    /\ IF ProviderFor(search.searchApi) = "tavily"
       THEN \A j \in 1..Len(search.queryList) : search.queryList[j] \in RejectedQueries
       ELSE /\ Len(search.searchDocsResponses) = Len(search.queryList)
            /\ \A j \in 1..Len(search.queryList) :
                  Truthy(search.searchDocsResponses[j].error)

\* the summaries that name every query of the call, in order, each with the
\* message of a failure
ErrorSummaries(header) ==
    {header \o Join([j \in 1..Len(search.queryList) |->
                        "Query '" \o search.queryList[j] \o "': " \o messages[j]], "\n") :
        messages \in [1..Len(search.queryList) -> FailureMessages \cup DdgFailureMessages]}

\* C27: when every query of the call failed, the call has returned, not
\* thrown: its sources are empty and its output is the error summary of the
\* provider, or a message that no valid search results were found.
C27_AllFailedIsDescriptive ==
    AllQueriesFailed =>
        /\ searchPc = "returned"
        /\ searchOutput.sources = <<>>
        /\ \/ searchOutput.formattedOutput
                 \in ErrorSummaries(IF ProviderFor(search.searchApi) = "tavily"
                                    THEN "Tavily search encountered errors:\n"
                                    ELSE "DuckDuckGo search encountered errors:\n")
           \/ searchOutput.formattedOutput
                 \in {TavilyNoResults, DdgNoResults, DdgNothingToScrape}

\* a tavily call of two queries has returned after both requests failed
C27_Witness ==
    /\ ReturnedFrom("tavily")
    /\ search.queryList = <<"q1", "q2">>
    /\ RejectedQueries = {"q1", "q2"}
    /\ AllQueriesFailed

\* a duckduckgo call of two queries has returned after q1 ran out of retries
\* and q2 failed for another reason
C27_WitnessDuckDuckGo ==
    /\ ReturnedFrom("duckduckgo")
    /\ search.queryList = <<"q1", "q2">>
    /\ AllQueriesFailed
    /\ search.searchDocsResponses[1].error = "202 Ratelimit"
    /\ search.searchDocsResponses[2].error = "Network Error"

----------------------------------------------------------------------------
(* The sources of a section under search-web (SpecSearchWeb, Spec) *)

UrlsOf(sources) == [j \in 1..Len(sources) |-> sources[j].url]

UrlSet(sources) == {sources[j].url : j \in 1..Len(sources)}

IsPrefix(old, new) ==
    Len(old) <= Len(new) /\ \A j \in 1..Len(old) : new[j] = old[j]

\* C28: a search-web pass leaves the sources the section had in place, in
\* front; what it appends are returned sources whose url the section did not
\* have, each url once, taken from its first returned source; every returned
\* url is in the list afterwards, and no url is in it twice.
C28_SourcesUniqueByUrl ==
    [][LET old == heap[1].sources
           new == heap'[1].sources
           returned == trace'[Len(trace')].returned
           appended == SubSeq(new, Len(old) + 1, Len(new))
       IN  /\ IsPrefix(old, new)
           /\ Distinct(UrlsOf(new))
           /\ UrlSet(new) = UrlSet(old) \cup UrlSet(returned)
           /\ \A j \in 1..Len(appended) :
                 LET first == Min({n \in 1..Len(returned) :
                                      returned[n].url = appended[j].url})
                 IN  appended[j] = returned[first]
           /\ \A j, k \in 1..Len(appended) :
                 LET at(x) == Min({n \in 1..Len(returned) :
                                      returned[n].url = appended[x].url})
                 IN  j < k => at(j) < at(k)]_vars

\* three passes have run: the section that had u1 got u2 and u3 from a
\* result with u2, u3 and u3 again, then nothing new from u3 and u1
C28_Witness ==
    /\ runStatus = "to search"
    /\ currentState["search_iterations"] = 3
    /\ Len(trace) = 3
    /\ UrlsOf(trace[2].returned) = <<"http://u2", "http://u3", "http://u3">>
    /\ UrlsOf(trace[3].returned) = <<"http://u3", "http://u1">>
    /\ heap[1].sources = <<Source("http://u1", "t1"), Source("http://u2", "t2 again"),
                           Source("http://u3", "t3")>>

\* C28 in a run of the graph: no section has a url twice in its sources
C28_RunSourcesUnique ==
    \A ref \in 1..Len(heap) : Distinct(UrlsOf(heap[ref].sources))

----------------------------------------------------------------------------
(* formatSections (SpecFormat) *)

\* the lines of the block of a section that has the given number
BlockLines(section, number) ==
    <<"",
      "============================================================",
      "Section " \o ToString(number) \o ": " \o section.name,
      "============================================================",
      "Description:",
      section.description,
      "Requires Research:",
      IF section.research THEN "true" ELSE "false",
      "",
      "Content:",
      IF section.content \in {"", Undefined} THEN "[Not yet written]" ELSE section.content,
      "",
      "">>

\* the blocks of the first n sections, one after the other
RECURSIVE BlocksUpTo(_, _)
BlocksUpTo(sections, n) ==
    IF n = 0 THEN ""
    ELSE BlocksUpTo(sections, n - 1) \o Join(BlockLines(sections[n], n), "\n")

\* what utils.test.ts expects for its list of one section
ExpectedIntroduction ==
    "\n============================================================\nSection 1: Introduction\n============================================================\nDescription:\nThis is the introduction.\nRequires Research:\nfalse\n\nContent:\nIntroduction content goes here.\n\n"

\* what utils.test.ts expects for its section without content
ExpectedFutureSection ==
    "\n============================================================\nSection 1: Future Section\n============================================================\nDescription:\nThis section is planned.\nRequires Research:\ntrue\n\nContent:\n[Not yet written]\n\n"

\* C29: formatSections returns the empty string for the empty list, and
\* otherwise the blocks of the sections in list order, numbered from 1, each
\* with the name, the description, the research flag and the content, or
\* '[Not yet written]' exactly when the section has no content; on the
\* lists of utils.test.ts it returns the texts expected there.
C29_FormatSections ==
    runStatus = "formatted" =>
        /\ heap = <<>> => lastResult.text = ""
        /\ lastResult.text = BlocksUpTo(heap, Len(heap))
        /\ (Len(heap) = 1 /\ heap[1].name = "Introduction")
              => lastResult.text = ExpectedIntroduction
        /\ (Len(heap) = 1 /\ heap[1].name = "Future Section")
              => lastResult.text = ExpectedFutureSection

\* a list of three sections was formatted: the second has no content, the
\* third has the empty string as content
C29_Witness ==
    /\ runStatus = "formatted"
    /\ Len(heap) = 3
    /\ heap[1].name = "Section 1"
    /\ heap[2].content = Undefined
    /\ heap[3].content = ""

----------------------------------------------------------------------------
(* search_iterations in a run of the graph (Spec) *)

\* state.search_iterations as a list of one number, the empty list while
\* the state has no such key
Iterations(state) ==
    IF Has(state, "search_iterations") THEN <<state["search_iterations"]>> ELSE <<>>

\* a stage has been executed in the step and has returned
StageReturned ==
    /\ Len(trace') = Len(trace) + 1
    /\ ~trace'[Len(trace')].threw

\* C30: generate-queries is entered with search_iterations 0 and
\* write-section with search_iterations >= 1; an execution of search-web
\* adds exactly 1; route-tasks sets it to 0 when it routes to
\* generate-queries and leaves it alone otherwise; no other stage, and no
\* failed stage, changes it.
C30_IterationsCountPasses ==
    [][/\ (runStatus' = "running" /\ currentNodeName' = "generate-queries")
             => Iterations(currentState') = <<0>>
       /\ (runStatus' = "running" /\ currentNodeName' = "write-section")
             => (Iterations(currentState') # <<>> /\ Iterations(currentState')[1] >= 1)
       /\ IF StageReturned /\ currentNodeName = "search-web"
          THEN /\ Iterations(currentState) # <<>>
               /\ Iterations(currentState') = <<Iterations(currentState)[1] + 1>>
          ELSE IF StageReturned /\ currentNodeName = "route-tasks"
          THEN Iterations(currentState') =
                  IF trace'[Len(trace')].goto = "generate-queries"
                  THEN <<0>> ELSE Iterations(currentState)
          ELSE Iterations(currentState') = Iterations(currentState)]_vars

\* write-section is about to run for the second time on a section: two
\* search passes were counted
C30_Witness ==
    /\ runStatus = "running"
    /\ currentNodeName = "write-section"
    /\ Iterations(currentState) = <<2>>
    /\ \E i \in 1..Len(trace) : trace[i].node = "write-section" /\ trace[i].grade = "fail"

\* generate-queries is entered for a section after another section was
\* searched: the count is 0 again
C30_WitnessReset ==
    /\ runStatus = "running"
    /\ currentNodeName = "generate-queries"
    /\ Iterations(currentState) = <<0>>
    /\ \E i \in 1..Len(trace) : trace[i].node = "search-web"

----------------------------------------------------------------------------
(* A stage that returns a partial state (SpecEngine) *)

\* the step taken is one stage of the graph returning a partial state
PartialStep ==
    /\ runStatus = "running"
    /\ maxSteps > 0
    /\ maxSteps' = maxSteps - 1
    /\ currentNodeName \in DOMAIN wf.nodes
    /\ lastResult'.kind = "partial"

\* C33: when a stage returns a partial state, run merges it into the state;
\* it goes on at the target of the stage's first direct edge when the stage
\* has one; otherwise it returns the merged state when the stage is
\* compile-final-report and the merged state has final_report, and throws at
\* any other stage and without final_report.
C33_PartialFollowsFirstEdge ==
    [][PartialStep =>
        LET update == lastResult'.update
            merged == [k \in (DOMAIN currentState) \cup (DOMAIN update) |->
                          IF k \in DOMAIN update THEN update[k] ELSE currentState[k]]
            hasEdge == /\ currentNodeName \in DOMAIN wf.edges
                       /\ Len(wf.edges[currentNodeName]) > 0
        IN  /\ currentState' = merged
            /\ hasEdge => /\ runStatus' = "running"
                          /\ currentNodeName' = wf.edges[currentNodeName][1]
            /\ ~hasEdge => runStatus' \in {"returned", "thrown"}
            /\ (~hasEdge /\ runStatus' = "returned")
                  <=> (/\ ~hasEdge
                       /\ currentNodeName = "compile-final-report"
                       /\ "final_report" \in DOMAIN merged)]_vars

\* compile-final-report, which has no direct edge, returned a partial state
\* with final_report and the run returned the merged state
C33_Witness ==
    /\ runStatus = "returned"
    /\ maxSteps >= 0
    /\ lastResult.kind = "partial"
    /\ trace[1].node = "compile-final-report"
    /\ currentState = [topic |-> "X", final_report |-> "r"]

\* write-section, which has no direct edge either, returned a partial state
\* with final_report and the run threw
C33_WitnessThrown ==
    /\ runStatus = "thrown"
    /\ lastResult = Partial([final_report |-> "r"])
    /\ trace[1].node = "write-section"

\* stage a, whose direct edges are to b and to a, returned a partial state
\* and the run went on at b
C33_WitnessFirstEdge ==
    /\ runStatus = "running"
    /\ lastResult.kind = "partial"
    /\ trace[1].node = "a"
    /\ currentNodeName = "b"

----------------------------------------------------------------------------
(* The order of the stages in a run of the graph (Spec) *)

\* the stage executed before the i-th executed stage
Before(i) == trace[i - 1]

\* every executed stage comes right after a stage the cycle allows before it
StagePairsInOrder ==
    /\ Len(trace) > 0 => trace[1].node = "generate-report-plan"
    /\ \A i \in 2..Len(trace) :
          /\ trace[i].node = "write-section" => Before(i).node = "search-web"
          /\ trace[i].node = "search-web"
                => Before(i).node \in {"generate-queries", "write-section"}
          /\ trace[i].node = "gather-completed-sections"
                => \/ Before(i).node = "write-section" /\ Before(i).goto = END
                   \/ Before(i).node = "write-final-sections"
          /\ trace[i].node = "compile-final-report" => Before(i).node = "route-tasks"
          /\ Before(i).node = "gather-completed-sections" => trace[i].node = "route-tasks"

\* gather-completed-sections is the stage executed last
GatheredLast ==
    /\ Len(trace) > 0
    /\ trace[Len(trace)].node = "gather-completed-sections"

\* C31, as stated: in a run of the report graph, write-section is executed
\* only right after search-web; search-web only right after generate-queries
\* or write-section; gather-completed-sections only right after a
\* write-section that returned goto END or after write-final-sections;
\* compile-final-report only right after route-tasks; and
\* gather-completed-sections is always followed by route-tasks: when it was
\* executed last, the run is going on, with a step left, to route-tasks.
C31_GatherAlwaysFollowed ==
    /\ StagePairsInOrder
    /\ GatheredLast => /\ runStatus = "running"
                       /\ currentNodeName = "route-tasks"
                       /\ maxSteps > 0

\* C31, amended: the same order, and after gather-completed-sections the
\* stage the run has selected is route-tasks, which is executed next unless
\* the step bound ends the run there.
C31_StagesFollowCycle ==
    /\ StagePairsInOrder
    /\ GatheredLast => /\ currentNodeName = "route-tasks"
                       /\ runStatus = "running" \/ maxSteps <= 0

\* in one run a section was searched again after write-section, a section
\* was gathered after write-section and one after write-final-sections, and
\* route-tasks was executed after gather-completed-sections
C31_Witness ==
    /\ \E i \in 2..Len(trace) :
          /\ trace[i].node = "search-web"
          /\ Before(i).node = "write-section"
    /\ \E i \in 2..Len(trace) :
          /\ trace[i].node = "gather-completed-sections"
          /\ Before(i).node = "write-final-sections"
    /\ \E i \in 2..Len(trace) :
          /\ trace[i].node = "gather-completed-sections"
          /\ Before(i).node = "write-section"
    /\ \E i \in 2..Len(trace) :
          /\ trace[i].node = "route-tasks"
          /\ Before(i).node = "gather-completed-sections"


----------------------------------------------------------------------------
(* The research text write-final-sections receives (Spec) *)

\* the sections of the plan that write-section has completed so far in the run
ResearchedEarlier ==
    {ref \in 1..Len(heap) :
        \E i \in 1..Len(trace) : /\ trace[i].node = "write-section"
                                 /\ trace[i].goto = END
                                 /\ trace[i].section = heap[ref].name}

\* the lists of sections of the plan that contain every section of need
ListsContaining(need) ==
    {list \in SeqsUpTo(1..Len(heap), MaxSections) :
        need \subseteq {list[j] : j \in 1..Len(list)}}

\* C32: when write-final-sections is about to run, the
\* report_sections_from_research of the state it receives is the formatting
\* of a list of sections that contains every research section completed
\* earlier in the run, with the content the section has.
C32_FinalSectionsGetResearch ==
    (runStatus = "running" /\ currentNodeName = "write-final-sections")
        => /\ Has(currentState, "report_sections_from_research")
           /\ \E list \in ListsContaining(ResearchedEarlier) :
                 currentState["report_sections_from_research"]
                    = formatSections(Deref(heap, list))

\* write-final-sections is about to run after a research section was
\* completed with a text
C32_Witness ==
    /\ runStatus = "running"
    /\ currentNodeName = "write-final-sections"
    /\ maxSteps > 0
    /\ \E ref \in ResearchedEarlier : heap[ref].content = "text-a"


----------------------------------------------------------------------------
(* The researcher's loop for one section (SpecResearcher) *)

\* the calls of searchWeb made so far
SearchPasses ==
    Cardinality({i \in 1..Len(trace) : trace[i].node = "search-web"})

\* the configured depth, 2 when it is 0 or not a number
DepthInForce ==
    IF max_search_depth = <<>> THEN 2
    ELSE IF max_search_depth[1] = 0 THEN 2 ELSE max_search_depth[1]

\* C34: the research-and-write loop for one section ends (it returns the
\* section, or an await threw) whatever the grades and the follow-up queries
\* are, the empty list and no list included, and it never calls searchWeb
\* more often than the configured max_search_depth, where 0 and an unset
\* depth count as 2.
C34_ResearchLoopTerminates ==
    /\ [](SearchPasses <= DepthInForce)
    /\ <>(runStatus \in {"returned", "thrown"})

\* the loop returned the section after as many passes as the depth in force
\* allows, the last but one followed by a fail grade with an empty list of
\* follow-up queries
C34_Witness ==
    /\ runStatus = "returned"
    /\ SearchPasses = DepthInForce
    /\ SearchPasses >= 2
    /\ lastResult.completed_section.content = "text-b"
    /\ \E i \in 1..Len(trace) :
          /\ trace[i].node = "write-section"
          /\ trace[i].goto = "search-web"
          /\ i < Len(trace)
          /\ trace[i + 1].node = "generate-queries"


----------------------------------------------------------------------------
(* The list tavilySearchAsync returns (SpecGateway) *)

\* C35: a call of tavilySearchAsync returns one response for each of its
\* queries, in the order of the queries: the j-th response is for the j-th
\* query, whether it came from the cache, from an answered request or from a
\* failed batch, and also when the list has a query twice.
C35_OneResponsePerQuery ==
    gatewayPc = "returned"
        => /\ Len(orderedResults) = Len(call.searchQueries)
           /\ \A j \in 1..Len(call.searchQueries) :
                 orderedResults[j].query = call.searchQueries[j]

\* a call whose list has q1 twice around q2 has returned three responses:
\* q2 came from the cache, and of the two requests for q1, which were in one
\* batch, one was answered and one failed
C35_Witness ==
    /\ gatewayPc = "returned"
    /\ call.searchQueries = <<"q1", "q2", "q1">>
    /\ Len(orderedResults) = 3
    /\ cacheKey("q2", call.maxResults, call.topic, call.includeRawContent)
          \in gatewayLog.containedAtStart \cap gatewayLog.answeredAtStart
    /\ gatewayLog.rejected # {}
    /\ gatewayLog.fulfilled # {}


----------------------------------------------------------------------------
(* What the search cache holds (SpecGateway) *)

\* every entry is under the key of a query and of parameters for which a
\* request was answered, and is an answer of the provider to that query,
\* without error tag
EntriesAreAnswers(cache, log) ==
    \A key \in DOMAIN cache :
       /\ key \in log.answered
       /\ cache[key].error = Undefined
       /\ \E q \in Queries, m \in {DefaultMaxResults, 3} :
             /\ key = q \o ":" \o ToString(m) \o ":general:true"
             /\ cache[key] \in ProviderAnswers(q)

\* the step is the start of a call
CallStarts == gatewayLog'.calls = gatewayLog.calls + 1

\* the queries whose request failed in the call before, and that the call
\* starting has again with the same parameters
FailedAndAskedAgain ==
    {r.query : r \in {x \in gatewayLog.rejected :
                         /\ call.maxResults = call'.maxResults
                         /\ \E j \in 1..Len(call'.searchQueries) :
                               call'.searchQueries[j] = x.query}}

\* the queries the call starting sends to the provider
SentToProvider ==
    {call'.uncachedQueries[j] : j \in 1..Len(call'.uncachedQueries)}

\* C36, as stated: the cache has an entry for a key only if a request for
\* that query and those parameters was answered, and never an error-tagged
\* response; a query whose request failed in a call is sent to the provider
\* again by the next call that has it; an entry once stored is never changed
\* or removed.
C36_EntriesNeverChange ==
    [][/\ EntriesAreAnswers(searchCache', gatewayLog')
       /\ CallStarts => FailedAndAskedAgain \subseteq SentToProvider
       /\ \A key \in DOMAIN searchCache :
             /\ key \in DOMAIN searchCache'
             /\ searchCache'[key] = searchCache[key]]_vars

\* C36, amended: the cache has an entry for a key only if a request for that
\* query and those parameters was answered, and never an error-tagged
\* response; a query whose request failed in a call is sent to the provider
\* again by the next call that has it, unless another request for the same
\* key was answered since; an entry is never removed, and is replaced only
\* by a later answer to the same query and parameters.
C36_CacheHoldsAnswersOnly ==
    [][/\ EntriesAreAnswers(searchCache', gatewayLog')
       /\ CallStarts =>
             \A q \in FailedAndAskedAgain :
                \/ q \in SentToProvider
                \/ cacheKey(q, call'.maxResults, call'.topic, call'.includeRawContent)
                      \in gatewayLog.answered
       /\ \A key \in DOMAIN searchCache : key \in DOMAIN searchCache']_vars

\* the second call has sent q1 to the provider again: the first call had q1
\* and got no answer for it before the second started; the request has now
\* been answered and the answer is in the cache
C36_Witness ==
    /\ gatewayLog.calls = 2
    /\ LET key == cacheKey("q1", call.maxResults, call.topic, call.includeRawContent)
       IN  /\ key \in gatewayLog.containedAtStart
           /\ key \notin gatewayLog.answeredAtStart
           /\ \E j \in 1..Len(gatewayLog.requested) : gatewayLog.requested[j] = key
           /\ "q1" \in gatewayLog.fulfilled
           /\ key \in DOMAIN searchCache
           /\ searchCache[key] \in ProviderAnswers("q1")


----------------------------------------------------------------------------
(* The order of the tool calls of runSupervisorWorkflow (SpecSupervisor) *)

\* the names of the sections the tool was called for, in the order of the calls
CalledFor(tool) ==
    LET calls == SelectSeq(toolLog, LAMBDA e : e.tool = tool)
    IN  [j \in 1..Len(calls) |-> calls[j].section]

\* the names of the sections of the outline that need research (flag TRUE)
\* or need none (flag FALSE), in outline order
OutlineNames(flag) ==
    LET sections == SelectSeq(reportSections, LAMBDA sec : sec.research = flag)
    IN  [j \in 1..Len(sections) |-> sections[j].name]

\* the research loop is over
ResearchLoopDone ==
    \/ supervisorPc \in {"write", "returned"}
    \/ supervisorPc = "thrown" /\ CalledFor("write-non-research-section") # <<>>

\* the workflow has called compile-report and the call did not reject
CompileCalled ==
    /\ Len(toolLog) > 0
    /\ toolLog[Len(toolLog)].tool = "compile-report"

\* the research-required sections are researched once each, in outline
\* order, and none after a non-research section was written; the
\* non-research sections are written in outline order, none twice
SupervisorOrder ==
    /\ IsPrefix(CalledFor("invoke-researcher-agent"), OutlineNames(TRUE))
    /\ ResearchLoopDone => CalledFor("invoke-researcher-agent") = OutlineNames(TRUE)
    /\ \A i, j \in 1..Len(toolLog) :
          (toolLog[i].tool = "write-non-research-section"
             /\ toolLog[j].tool = "invoke-researcher-agent") => j < i
    /\ IsPrefix(CalledFor("write-non-research-section"), OutlineNames(FALSE))

\* when compile-report is called every non-research section has been
\* written, and the list it is given has the names of the outline in order
SupervisorComplete ==
    CompileCalled
        => /\ CalledFor("write-non-research-section") = OutlineNames(FALSE)
           /\ Len(completedSections) = Len(reportSections)
           /\ \A i \in 1..Len(reportSections) :
                 completedSections[i].name = reportSections[i].name

\* C37: every research-required section of the outline is researched
\* exactly once, in outline order, before any non-research section is
\* written; every non-research section is written exactly once; and the list
\* passed to compile-report has the length and the section names of the
\* outline, in the same order.
C37_EachSectionOnceInOrder ==
    SupervisorOrder /\ SupervisorComplete

\* C37 for outlines whose section names are pairwise different
C37_EachSectionOnceDistinctNames ==
    (\A i, j \in 1..Len(reportSections) :
        reportSections[i].name = reportSections[j].name => i = j)
        => C37_EachSectionOnceInOrder

\* compile-report was called for an outline of three sections with different
\* names, of which the second needs research
C37_WitnessDistinctNames ==
    /\ CompileCalled
    /\ Len(reportSections) = 3
    /\ reportSections[2].research
    /\ ~reportSections[1].research
    /\ ~reportSections[3].research
    /\ \A i, j \in 1..3 : reportSections[i].name = reportSections[j].name => i = j


----------------------------------------------------------------------------
(* The two report compilers on one section list: compileReportTool.execute *)
(* and compileFinalReport are applied to a list drawn from a bounded set:  *)
(* sections of one name with different contents, an empty content, a       *)
(* section named "__proto__", the same object twice, urls that repeat, a   *)
(* source without a url and a source without a title                       *)

CompileReportHeap ==
    << Section("A", "about A", TRUE, "",
               <<Source("http://u1", "t1"), Source("http://u2", "t2")>>),
       Section("A", "about A", TRUE, "new a",
               <<Source("http://u1", "t1 again"), Source("http://u3", "t3")>>),
       Section("B", "about B", FALSE, "old b", <<>>),
       Section("__proto__", "about prototypes", FALSE, "proto text",
               <<Source("http://u2", "t2")>>),
       Section("constructor", "about constructors", FALSE, "", <<>>),
       Section("C", "about C", TRUE, "text c", <<Source("", "no url")>>),
       Section("D", "about D", TRUE, "text d", <<Source("http://u4", "")>>) >>

InitCompileReport ==
    /\ wf = newGraph
    /\ runStatus = "to compile both"
    /\ currentNodeName = Null
    /\ \E list \in SeqsUpTo(DOMAIN CompileReportHeap, MaxCompileLen) :
          currentState = [topic |-> "X", sections |-> list,
                          completed_sections |-> list]
    /\ maxSteps = MaxStepsInit
    /\ heap = CompileReportHeap
    /\ max_search_depth = 0
    /\ awaiting = ""
    /\ lastResult = Invalid
    /\ trace = <<>>
    /\ supervisorPc = "idle"
    /\ reportSections = <<>>
    /\ completedSections = <<>>
    /\ allResearchedContent = ""
    /\ sectionsWrittenInThisStep = <<>>
    /\ loopIndex = 0
    /\ supervisorResult = Undefined
    /\ toolLog = <<>>
    /\ GatewayIdle
    /\ SearchIdle

\* compileReportTool.execute({sections}) and then compileFinalReport(state)
\* with state.sections and state.completed_sections that same list
ApplyCompileBoth ==
    /\ runStatus = "to compile both"
    /\ runStatus' = "compiled both"
    /\ completedSections' = Deref(heap, currentState["sections"])
    /\ supervisorResult' = compileReportTool(completedSections').final_report_text
    /\ LET r == compileFinalReport(currentState, heap)
       IN  lastResult' = r.result /\ heap' = r.heap
    /\ UNCHANGED <<wf, currentNodeName, currentState, maxSteps, max_search_depth, awaiting, trace>>
    /\ UNCHANGED <<supervisorPc, reportSections, allResearchedContent,
                   sectionsWrittenInThisStep, loopIndex, toolLog>>
    /\ UNCHANGED <<gatewayVars, searchVars>>

SpecCompileReport == InitCompileReport /\ [][ApplyCompileBoth]_vars


----------------------------------------------------------------------------
(* compileReportTool against compileFinalReport (SpecCompileReport) *)

\* every source of the list given to compile-report has a url and a title
SourcesComplete ==
    \A i \in 1..Len(completedSections) :
        \A k \in 1..Len(completedSections[i].sources) :
            /\ completedSections[i].sources[k].url # ""
            /\ completedSections[i].sources[k].title # ""

\* C38: for a section list in which each source has a non-empty url and a
\* non-empty title, compile-report produces the report text compileFinalReport
\* produces for a state whose sections and completed_sections are that list.
C38_ToolCompilesAsGraph ==
    (runStatus = "compiled both" /\ SourcesComplete)
        => supervisorResult = lastResult.update["final_report"]

\* both compilers were applied to two sections of one name with different
\* contents, the first empty, whose sources share a url
C38_Witness ==
    /\ runStatus = "compiled both"
    /\ currentState["sections"] = <<1, 2>>
    /\ SourcesComplete
    /\ heap # CompileReportHeap
    /\ supervisorResult # ""


====
